---- MODULE Spec2Model ----
(***************************************************************************)
(* Verification model of torch/_dynamo/repro/after_aot.py.                 *)
(*                                                                         *)
(* Part I  (specification Spec): wrap_compiler_debug, the wrapper around  *)
(*   a backend compiler that checkpoints failing compilations and failing  *)
(*   or inaccurate invocations.  The wrapper's code is cut at each call it *)
(*   makes to the outside (the backend compiler, the compiled callable,    *)
(*   the accuracy comparison); every action below is one such segment.     *)
(* Part II (specification WriterSpec): InputWriter and the replay of its   *)
(*   script by InputReader.                                                *)
(* Part III (ReplaySpec): generate_compiler_repro_string and the replay   *)
(*   of the script it returns.  Part IV (ScriptSpec): repro_common over a  *)
(*   script it is handed.                                                  *)
(* Part V  (IsolateSpec): isolate_fails and the minifier-query child.      *)
(* Part VI (PredicateSpec): inductor_fails, the in-process predicate.      *)
(* Part VII (AnalyzeSpec): repro_analyze, pass by pass.                    *)
(* ReentrySpec is Part I with a call made from inside the wrapper.         *)
(*                                                                         *)
(* Part VIII (SparseSpec) models the sample and error input generators of  *)
(*   torch/testing/_internal/opinfo/definitions/sparse.py.                 *)
(***************************************************************************)
EXTENDS Integers, Sequences, FiniteSets, TLC

\* ------------------------------------------------------------------------
\* Bounds
\* ------------------------------------------------------------------------
MaxInputs == 2      \* longest argument list handed to the wrapper
MaxNodes == 2       \* largest node count of a graph
MaxStorages == 2    \* number of distinct buffers a writer session can meet
MaxCalls == 2       \* number of calls made on one InputWriter
MaxLines == 3       \* longest script handed to repro_common
MaxCandidates == 3  \* candidates the minifier asks isolate_fails about
MaxSamples == 2     \* samples the dense reduction generator hands over

\* ------------------------------------------------------------------------
\* Values
\* ------------------------------------------------------------------------
\* A runtime argument: a tensor (real content "data", or a FakeTensor that
\* carries only metadata, content "fake") or a plain integer.
RealTensors == [kind : {"tensor"}, is_cuda : BOOLEAN, content : {"data"}]
FakeTensors == [kind : {"tensor"}, is_cuda : BOOLEAN, content : {"fake"}]
IntArgs == [kind : {"int"}, is_cuda : {FALSE}, content : {"int"}]

SeqsUpTo(S, n) == UNION {[1..k -> S] : k \in 0..n}
NonEmptySeqsUpTo(S, n) == UNION {[1..k -> S] : k \in 1..n}

\* example_inputs of a compilation: AOT Autograd hands fake tensors (or
\* real ones) and integers.
ExampleInputLists == NonEmptySeqsUpTo(FakeTensors \cup IntArgs, MaxInputs)

\* The arguments of an invocation are the real counterparts of the example
\* inputs the graph was traced with: same kinds and devices, real content.
RealOf(x) == IF x.kind = "tensor" THEN [x EXCEPT !.content = "data"] ELSE x
RealInputsFor(inputs) == [i \in DOMAIN inputs |-> RealOf(inputs[i])]

\* A graph: its node count and whether it is still the graph that was
\* traced ("traced") or was rewritten in place by the backend ("lowered").
Graphs == [nodes : 1..MaxNodes, state : {"traced", "lowered"}]
\* What an in-place rewrite by the backend leaves behind.
Lowered(g) ==
    IF g.state = "lowered" THEN g
    ELSE [nodes |-> (g.nodes % MaxNodes) + 1, state |-> "lowered"]

CompilerNames == {"inductor", "nvfuser"}
ReproAfter == {"aot", "dynamo", "None"}
ReproLevels == 1..4

NoOutcome == [kind |-> "none", what |-> "none"]
Returned(v) == [kind |-> "return", what |-> v]
Raised(e) == [kind |-> "raise", what |-> e]

VARIABLES
    config_repro_after,  \* config.repro_after (ambient, module-level)
    config_repro_level,  \* config.repro_level (ambient, module-level)
    compiler_name,       \* argument of wrap_compiler_debug
    gm_graph,            \* gm.graph, the live graph of the module
    orig_graph,          \* debug_wrapper's deep copy of gm.graph
    example_inputs,      \* the list object passed to debug_wrapper
    real_inputs,         \* the list object passed to the deferred invoker
    passed_inputs,       \* contents of real_inputs when the caller passed it
    copy_tensor_attrs,   \* inner_debug_fn's fake copies of real_inputs
    wrapped,             \* what debug_wrapper returned to its caller
    pc,                  \* position of the wrapper's code
    exc,                 \* exception in flight (the `e` of an except clause)
    pending,             \* value or exception with which the frame is left
    saved_repro_after,   \* value config.patch restores on exit
    call_site,           \* which call of inner_compiled_fn is executing
    events,              \* externally visible steps of the current call
    outcome,             \* what the current call's caller has observed
    checkpoints,         \* <minifier_dir>/checkpoints/<n>.py files
    repro_py,            \* <cwd>/repro.py convenience copy
    minifier_launcher    \* file written by helper_for_dump_minify

capture_vars == <<config_repro_after, config_repro_level, compiler_name,
                  gm_graph, orig_graph, example_inputs, real_inputs,
                  passed_inputs, copy_tensor_attrs, wrapped, pc, exc,
                  pending, saved_repro_after, call_site, events, outcome,
                  checkpoints, repro_py, minifier_launcher>>

\* State of Part II: one InputWriter session and the buffers it is shown.
VARIABLES
    storages,            \* the live untyped storages, by identity
    store_present,       \* InputWriter.store is not None (save_dir given)
    store,               \* content store: what write_storage has written
    w_lines,             \* InputWriter._lines
    storage_counter,     \* next value of InputWriter.storage_counter
    seen_storages,       \* InputWriter.seen_storages: identity -> name
    w_result,            \* how the last writer call ended
    w_calls,             \* number of calls made on the writer
    captured,            \* the values handed to tensor() and symint(), in order
    line_source          \* per line: identity of the buffer it is about

writer_vars == <<storages, store_present, store, w_lines, storage_counter,
                 seen_storages, w_result, w_calls, captured, line_source>>

\* State of Part III: one run of load_args by repro_common.
VARIABLES
    gen,                 \* how far generate_compiler_repro_string has got
    nop_total,           \* NopInputReader.total after the counting pass
    loaded,              \* what the InputReader pass left behind
    load_args_version    \* the _version attribute of the script's load_args

reader_vars == <<gen, nop_total, loaded, load_args_version>>

\* State of Part V: the minifier's driver process asking isolate_fails
\* about candidates, and the child process of the evaluation under way.
VARIABLES
    options_accuracy,    \* options.accuracy of the generated script
    iso_pc,              \* where isolate_fails is
    child,               \* the child process of the evaluation under way
    live_children,       \* child processes spawned and not yet exited
    answers              \* what isolate_fails returned, candidate by candidate

isolate_vars == <<options_accuracy, iso_pc, child, live_children, answers>>

\* State of Part VI: one call of the in-process predicate inductor_fails.
VARIABLES
    predicate            \* the call: its arguments, position and outcome

predicate_vars == <<predicate>>

\* State of Part VII: one run of repro_analyze over an artifact directory.
VARIABLES
    traces,              \* the tensors written under save_dir, by name
    analysis             \* the run: its options, position and findings

analyze_vars == <<traces, analysis>>

\* State of the re-entrant use of the wrapper: a call made from inside a
\* call the wrapper has made to the outside.
VARIABLES
    suspended,           \* the frame that waits for the re-entrant call
    reentry              \* what the re-entrant call did, once it is over

reentry_vars == <<suspended, reentry>>

\* State of Part VIII: the two generators of sparse.py over one operation.
VARIABLES
    sparse_gen           \* the arguments and how far each generator has got

sparse_vars == <<sparse_gen>>

vars == <<capture_vars, writer_vars, reader_vars, isolate_vars,
          predicate_vars, analyze_vars, reentry_vars, sparse_vars>>

\* What each part leaves alone
outside_capture == <<writer_vars, reader_vars, isolate_vars, predicate_vars,
                     analyze_vars,
                     reentry_vars, sparse_vars>>
outside_writer == <<capture_vars, reader_vars, isolate_vars, predicate_vars,
                    analyze_vars,
                     reentry_vars, sparse_vars>>
outside_reader == <<capture_vars, writer_vars, isolate_vars, predicate_vars,
                    analyze_vars,
                     reentry_vars, sparse_vars>>
outside_isolate == <<capture_vars, writer_vars, reader_vars, predicate_vars,
                     analyze_vars,
                     reentry_vars, sparse_vars>>
outside_predicate == <<capture_vars, writer_vars, reader_vars, isolate_vars,
                       analyze_vars,
                     reentry_vars, sparse_vars>>
outside_analyze == <<capture_vars, writer_vars, reader_vars, isolate_vars,
                     predicate_vars,
                     reentry_vars, sparse_vars>>
outside_reentry == <<writer_vars, reader_vars, isolate_vars, predicate_vars,
                     analyze_vars, sparse_vars>>
outside_sparse == <<capture_vars, writer_vars, reader_vars, isolate_vars,
                    predicate_vars, analyze_vars, reentry_vars>>

\* ------------------------------------------------------------------------
\* Persistence: save_graph_repro, dump_compiler_graph_state, dump_to_minify
\* ------------------------------------------------------------------------
AccuracyName(name) ==
    CASE name = "inductor" -> "inductor_accuracy"
      [] name = "nvfuser" -> "nvfuser_accuracy"
      [] OTHER -> name

\* f"{compiler_name}_accuracy" is the only way "_accuracy" gets into a name
HasAccuracySuffix(name) == name \in {"inductor_accuracy", "nvfuser_accuracy"}

\* The script save_graph_repro writes: the module text of gm, load_args for
\* args, and the run_repro trailer.
SaveGraphRepro(g, args, name, command) ==
    [graph |-> g, args |-> args, compiler_name |-> name,
     accuracy |-> HasAccuracySuffix(name), command |-> command,
     complete |-> TRUE]

\* A file that was opened for writing and never finished.
Truncated(g, name, command) ==
    [graph |-> g, args |-> <<>>, compiler_name |-> name,
     accuracy |-> HasAccuracySuffix(name), command |-> command,
     complete |-> FALSE]

\* How a persistence call can end: "ok"; "open" (open(file_name, "w")
\* raises, nothing touched); "write" (save_graph_repro raises after the file
\* was opened and truncated).
DumpEnds == {"ok", "open", "write"}

\* Mutant of DumpCompilerGraphState: every write makes a file of its own
\* and leaves the earlier ones in place.
DumpCompilerGraphStateKeepsOld(g, args, name, end, copy_ok) ==
    LET file == g.nodes
        script == SaveGraphRepro(g, args, name, "run")
    IN  CASE end = "open" ->
               /\ checkpoints' = checkpoints
               /\ repro_py' = repro_py
          [] end = "write" ->
               /\ checkpoints' = checkpoints \cup
                      {[file |-> file, script |-> Truncated(g, name, "run")]}
               /\ repro_py' = repro_py
          [] OTHER ->
               /\ checkpoints' = checkpoints \cup
                      {[file |-> file, script |-> script]}
               /\ repro_py' = IF copy_ok THEN {script} ELSE repro_py

\* dump_compiler_graph_state(gm, args, compiler_name): the file is named by
\* the node count; the copy to repro.py is best effort (OSError is caught).
DumpCompilerGraphState(g, args, name, end, copy_ok) ==
    LET file == g.nodes
        others == {c \in checkpoints : c.file # file}
        script == SaveGraphRepro(g, args, name, "run")
    IN  CASE end = "open" ->
               /\ checkpoints' = checkpoints
               /\ repro_py' = repro_py
          [] end = "write" ->
               /\ checkpoints' = others \cup
                      {[file |-> file, script |-> Truncated(g, name, "run")]}
               /\ repro_py' = repro_py
          [] OTHER ->
               /\ checkpoints' = others \cup {[file |-> file, script |-> script]}
               /\ repro_py' = IF copy_ok THEN {script} ELSE repro_py

\* dump_to_minify(gm, args, compiler_name): the script goes to a StringIO
\* and helper_for_dump_minify writes it out as the minifier launcher.
DumpToMinify(g, args, name, end) ==
    IF end = "ok"
    THEN minifier_launcher' = {SaveGraphRepro(g, args, name, "minify")}
    ELSE minifier_launcher' = minifier_launcher

\* Mutant of GraphModule: the checkpoint is built from gm as the backend
\* left it.
GraphModuleLive(g) == gm_graph

\* fx.GraphModule(gm, orig_graph): gm's attributes with the copied graph
GraphModule(g) == g

\* Mutant of FakeCopy: the copy keeps the tensor's content.
FakeCopyKeepsContent(x) == x

\* FakeTensorMode.from_tensor(x) if isinstance(x, torch.Tensor) else x
FakeCopy(x) == IF x.kind = "tensor" THEN [x EXCEPT !.content = "fake"] ELSE x
CopyTensorAttrs(inputs) == [i \in DOMAIN inputs |-> FakeCopy(inputs[i])]

\* any(isinstance(arg, torch.Tensor) and arg.is_cuda for arg in inputs)
AnyCuda(inputs) ==
    \E i \in DOMAIN inputs : inputs[i].kind = "tensor" /\ inputs[i].is_cuda

Ev(op, ok) == [op |-> op, ok |-> ok]

\* No frame is waiting; no re-entrant call has been made.
NoFrame == [kind |-> "none"]
NoReentry == [kind |-> "none"]
ReentryIdle == suspended = NoFrame /\ reentry = NoReentry

\* ------------------------------------------------------------------------
\* Initial state: the process has imported the module, nothing is wrapped,
\* the minifier directory is empty.
\* ------------------------------------------------------------------------
CaptureInit ==
    /\ config_repro_after \in ReproAfter
    /\ config_repro_level \in ReproLevels
    /\ compiler_name \in CompilerNames
    /\ gm_graph \in {g \in Graphs : g.state = "traced"}
    /\ orig_graph = gm_graph
    /\ example_inputs \in ExampleInputLists
    /\ real_inputs = <<>>
    /\ passed_inputs = <<>>
    /\ copy_tensor_attrs = <<>>
    /\ wrapped = "none"
    /\ pc = "idle"
    /\ exc = "none"
    /\ pending = NoOutcome
    /\ saved_repro_after = "unset"
    /\ call_site = "none"
    /\ events = <<>>
    /\ outcome = NoOutcome
    /\ checkpoints = {}
    /\ repro_py = {}
    /\ minifier_launcher = {}
    /\ ReentryIdle

\* ------------------------------------------------------------------------
\* Building blocks of the wrapper's actions
\* ------------------------------------------------------------------------
files == <<checkpoints, repro_py, minifier_launcher>>

\* One persistence call of the wrapper; kind "none" is the path that calls
\* neither function.
Persist(kind, g, args, name, end, copy_ok) ==
    CASE kind = "dump_compiler_graph_state" ->
           /\ DumpCompilerGraphState(g, args, name, end, copy_ok)
           /\ UNCHANGED minifier_launcher
      [] kind = "dump_to_minify" ->
           /\ DumpToMinify(g, args, name, end)
           /\ UNCHANGED <<checkpoints, repro_py>>
      [] OTHER -> UNCHANGED files

PersistEvents(kind, end) ==
    IF kind = "none" THEN <<>> ELSE <<Ev(kind, end = "ok")>>

\* The wrapper's code executes `return v` or `raise`: after the steps evs
\* of this segment the frame is about to be left with o.
Complete(o, evs) ==
    /\ pending' = o
    /\ events' = events \o evs
    /\ pc' = "leave"
    /\ exc' = "none"
    /\ UNCHANGED <<outcome, call_site, config_repro_after, saved_repro_after>>

\* The frame is left: a config.patch context that was entered is exited and
\* the caller observes the value or the exception.
Leave ==
    /\ pc = "leave"
    /\ suspended = NoFrame
    /\ outcome' = pending
    /\ pending' = NoOutcome
    /\ events' = Append(events, Ev(pending.kind, TRUE))
    /\ pc' = "idle"
    /\ call_site' = "none"
    /\ config_repro_after' = IF saved_repro_after = "unset"
                             THEN config_repro_after
                             ELSE saved_repro_after
    /\ saved_repro_after' = "unset"
    /\ UNCHANGED <<config_repro_level, compiler_name, gm_graph, orig_graph,
                   example_inputs, real_inputs, passed_inputs,
                   copy_tensor_attrs, wrapped, exc, checkpoints, repro_py,
                   minifier_launcher>>
    /\ UNCHANGED outside_capture

\* ------------------------------------------------------------------------
\* config.repro_after is patched between calls (by the user, or by the
\* callers of the wrapper with config.patch); config.repro_level is set once
\* when the process starts.
\* ------------------------------------------------------------------------
SetReproAfter(after) ==
    /\ pc = "idle"
    /\ suspended = NoFrame
    /\ after # config_repro_after
    /\ config_repro_after' = after
    /\ UNCHANGED <<config_repro_level, compiler_name, gm_graph, orig_graph, example_inputs,
                   real_inputs, passed_inputs, copy_tensor_attrs, wrapped,
                   pc, exc, pending, saved_repro_after, call_site, events,
                   outcome,
                   checkpoints, repro_py, minifier_launcher>>
    /\ UNCHANGED outside_capture

\* ------------------------------------------------------------------------
\* debug_wrapper(gm, example_inputs)
\* ------------------------------------------------------------------------
\* Entry up to the call of compiler_fn: the deep copy of the graph.
DebugWrapperEnter ==
    /\ pc = "idle"
    /\ wrapped = "none"
    /\ orig_graph' = gm_graph
    /\ wrapped' = "none"
    /\ pc' = "compiler_fn"
    /\ events' = <<>>
    /\ outcome' = NoOutcome
    /\ UNCHANGED <<config_repro_after, config_repro_level, compiler_name,
                   gm_graph, example_inputs, real_inputs, passed_inputs,
                   copy_tensor_attrs, exc, pending, saved_repro_after,
                   call_site, checkpoints, repro_py, minifier_launcher>>
    /\ UNCHANGED outside_capture

\* compiler_fn(gm, example_inputs): the backend.  It may rewrite gm.graph in
\* place, and it returns the compiled callable or raises.
CompilerFn(raises, rewrites) ==
    /\ pc = "compiler_fn"
    /\ gm_graph' = IF rewrites THEN Lowered(gm_graph) ELSE gm_graph
    /\ events' = Append(events, Ev("compiler_fn", ~raises))
    /\ IF raises
       THEN exc' = "BackendCompileError" /\ pc' = "compile_except"
       ELSE exc' = "none" /\ pc' = "compile_return"
    /\ UNCHANGED <<config_repro_after, config_repro_level, compiler_name,
                   orig_graph, example_inputs, real_inputs, passed_inputs,
                   copy_tensor_attrs, wrapped, pending, saved_repro_after,
                   call_site, outcome, checkpoints, repro_py,
                   minifier_launcher>>
    /\ UNCHANGED outside_capture

\* Which persistence function the compile-failure handler calls.
CompileExceptDump ==
    IF config_repro_after = "aot" /\ config_repro_level = 1
    THEN "dump_compiler_graph_state"
    ELSE IF config_repro_after = "aot" /\ config_repro_level = 2
         THEN "dump_to_minify"
         ELSE "none"

\* except Exception: dump at level 1 or 2, log, raise.  An exception raised
\* by the dump leaves the except clause in place of the one being handled.
DebugWrapperExcept(end, copy_ok) ==
    /\ pc = "compile_except"
    /\ CompileExceptDump = "none" => end = "ok" /\ copy_ok
    /\ Persist(CompileExceptDump, GraphModule(orig_graph), example_inputs,
               compiler_name, end, copy_ok)
    /\ Complete(Raised(IF end = "ok" THEN exc ELSE "PersistError"),
                PersistEvents(CompileExceptDump, end))
    /\ UNCHANGED <<config_repro_level, compiler_name, gm_graph, orig_graph,
                   example_inputs, real_inputs, passed_inputs,
                   copy_tensor_attrs, wrapped>>
    /\ UNCHANGED outside_capture

\* The compile succeeded: hand out the deferred invoker, or the compiled
\* callable itself when capture is off.
DebugWrapperReturn ==
    /\ pc = "compile_return"
    /\ wrapped' = IF config_repro_after = "aot"
                  THEN "deferred_for_real_inputs"
                  ELSE "inner_compiled_fn"
    /\ Complete(Returned(wrapped'), <<>>)
    /\ UNCHANGED <<config_repro_level, compiler_name, gm_graph, orig_graph,
                   example_inputs, real_inputs, passed_inputs,
                   copy_tensor_attrs, checkpoints, repro_py,
                   minifier_launcher>>
    /\ UNCHANGED outside_capture

\* ------------------------------------------------------------------------
\* deferred_for_real_inputs(real_inputs) and inner_debug_fn(real_inputs)
\* ------------------------------------------------------------------------
\* Mutant of DeferredForRealInputs: the mode is not looked at again, every
\* invocation runs inner_debug_fn.
DeferredAlwaysCaptures ==
    /\ pc = "idle"
    /\ wrapped = "deferred_for_real_inputs"
    /\ real_inputs' = RealInputsFor(example_inputs)
    /\ passed_inputs' = RealInputsFor(example_inputs)
    /\ copy_tensor_attrs' = <<>>
    /\ events' = <<>>
    /\ outcome' = NoOutcome
    /\ pc' = "inner_debug_fn"
    /\ call_site' = "none"
    /\ saved_repro_after' = config_repro_after
    /\ config_repro_after' = "None"
    /\ UNCHANGED <<config_repro_level, compiler_name, gm_graph, orig_graph,
                   example_inputs, wrapped, exc, pending, checkpoints,
                   repro_py, minifier_launcher>>
    /\ UNCHANGED outside_capture

\* Mutant of DeferredForRealInputs: inner_debug_fn runs without the
\* config.patch context.
DeferredWithoutPatch ==
    /\ pc = "idle"
    /\ wrapped = "deferred_for_real_inputs"
    /\ real_inputs' = RealInputsFor(example_inputs)
    /\ passed_inputs' = RealInputsFor(example_inputs)
    /\ copy_tensor_attrs' = <<>>
    /\ events' = <<>>
    /\ outcome' = NoOutcome
    /\ IF config_repro_after # "aot"
       THEN /\ pc' = "inner_compiled_fn"
            /\ call_site' = "deferred_for_real_inputs"
       ELSE /\ pc' = "inner_debug_fn"
            /\ call_site' = "none"
    /\ UNCHANGED <<config_repro_after, saved_repro_after>>
    /\ UNCHANGED <<config_repro_level, compiler_name, gm_graph, orig_graph,
                   example_inputs, wrapped, exc, pending, checkpoints,
                   repro_py, minifier_launcher>>
    /\ UNCHANGED outside_capture

\* The caller invokes the deferred invoker.  With capture off at this moment
\* the compiled callable is called directly; otherwise inner_debug_fn runs
\* under config.patch(repro_after=None).
DeferredForRealInputs ==
    /\ pc = "idle"
    /\ wrapped = "deferred_for_real_inputs"
    /\ real_inputs' = RealInputsFor(example_inputs)
    /\ passed_inputs' = RealInputsFor(example_inputs)
    /\ copy_tensor_attrs' = <<>>
    /\ events' = <<>>
    /\ outcome' = NoOutcome
    /\ IF config_repro_after # "aot"
       THEN /\ pc' = "inner_compiled_fn"
            /\ call_site' = "deferred_for_real_inputs"
            /\ UNCHANGED <<config_repro_after, saved_repro_after>>
       ELSE /\ pc' = "inner_debug_fn"
            /\ call_site' = "none"
            /\ saved_repro_after' = config_repro_after
            /\ config_repro_after' = "None"
    /\ UNCHANGED <<config_repro_level, compiler_name, gm_graph, orig_graph,
                   example_inputs, wrapped, exc, pending, checkpoints,
                   repro_py, minifier_launcher>>
    /\ UNCHANGED outside_capture

\* With capture off at wrap time the caller holds the backend's callable and
\* invokes it without the wrapper.
CallCompiledDirectly ==
    /\ pc = "idle"
    /\ wrapped = "inner_compiled_fn"
    /\ real_inputs' = RealInputsFor(example_inputs)
    /\ passed_inputs' = RealInputsFor(example_inputs)
    /\ copy_tensor_attrs' = <<>>
    /\ events' = <<>>
    /\ outcome' = NoOutcome
    /\ pc' = "inner_compiled_fn"
    /\ call_site' = "caller"
    /\ UNCHANGED <<config_repro_after, config_repro_level, compiler_name,
                   gm_graph, orig_graph, example_inputs, wrapped, exc,
                   pending, saved_repro_after, checkpoints, repro_py,
                   minifier_launcher>>
    /\ UNCHANGED outside_capture

\* Mutant of InnerDebugFnEnter: at level 4 a backend other than inductor
\* skips the accuracy check and calls the compiled callable.
InnerDebugFnEnterSkipsCheck(end) ==
    /\ pc = "inner_debug_fn"
    /\ copy_tensor_attrs' = CopyTensorAttrs(real_inputs)
    /\ IF config_repro_level = 3
       THEN /\ DumpToMinify(GraphModule(orig_graph), real_inputs,
                            compiler_name, end)
            /\ UNCHANGED <<checkpoints, repro_py>>
            /\ IF end = "ok"
               THEN /\ pc' = "inner_compiled_fn"
                    /\ call_site' = "try"
                    /\ events' = events \o PersistEvents("dump_to_minify", end)
                    /\ UNCHANGED <<outcome, exc, pending, config_repro_after,
                                   saved_repro_after>>
               ELSE Complete(Raised("PersistError"),
                             PersistEvents("dump_to_minify", end))
       ELSE /\ end = "ok"
            /\ UNCHANGED files
            /\ IF config_repro_level = 4
               THEN IF compiler_name # "inductor"
                    THEN /\ pc' = "inner_compiled_fn"
                         /\ call_site' = "accuracy_passed"
                         /\ UNCHANGED <<outcome, exc, pending,
                                        config_repro_after,
                                        saved_repro_after, events>>
                    ELSE /\ pc' = "backend_aot_accuracy_fails"
                         /\ UNCHANGED <<outcome, exc, pending,
                                        config_repro_after,
                                        saved_repro_after, call_site, events>>
               ELSE /\ pc' = "inner_compiled_fn"
                    /\ call_site' = "try"
                    /\ UNCHANGED <<outcome, exc, pending, config_repro_after,
                                   saved_repro_after, events>>
    /\ UNCHANGED <<config_repro_level, compiler_name, gm_graph, orig_graph,
                   example_inputs, real_inputs, passed_inputs, wrapped>>
    /\ UNCHANGED outside_capture

\* Mutant of InnerDebugFnEnter: level 3 writes nothing on entry, like
\* levels 1 and 2.
InnerDebugFnEnterNoEarlyDump(end) ==
    /\ pc = "inner_debug_fn"
    /\ copy_tensor_attrs' = CopyTensorAttrs(real_inputs)
    /\ end = "ok"
    /\ UNCHANGED files
    /\ IF config_repro_level = 4
       THEN IF compiler_name # "inductor"
            THEN Complete(Raised("NotImplementedError"), <<>>)
            ELSE /\ pc' = "backend_aot_accuracy_fails"
                 /\ UNCHANGED <<outcome, exc, pending, config_repro_after,
                                saved_repro_after, call_site, events>>
       ELSE /\ pc' = "inner_compiled_fn"
            /\ call_site' = "try"
            /\ UNCHANGED <<outcome, exc, pending, config_repro_after,
                           saved_repro_after, events>>
    /\ UNCHANGED <<config_repro_level, compiler_name, gm_graph, orig_graph,
                   example_inputs, real_inputs, passed_inputs, wrapped>>
    /\ UNCHANGED outside_capture

\* inner_debug_fn up to its first call to the outside: the fake copies, the
\* level-3 dump, the level-4 backend check.
InnerDebugFnEnter(end) ==
    /\ pc = "inner_debug_fn"
    /\ copy_tensor_attrs' = CopyTensorAttrs(real_inputs)
    /\ IF config_repro_level = 3
       THEN /\ DumpToMinify(GraphModule(orig_graph), real_inputs,
                            compiler_name, end)
            /\ UNCHANGED <<checkpoints, repro_py>>
            /\ IF end = "ok"
               THEN /\ pc' = "inner_compiled_fn"
                    /\ call_site' = "try"
                    /\ events' = events \o PersistEvents("dump_to_minify", end)
                    /\ UNCHANGED <<outcome, exc, pending, config_repro_after,
                                   saved_repro_after>>
               ELSE Complete(Raised("PersistError"),
                             PersistEvents("dump_to_minify", end))
       ELSE /\ end = "ok"
            /\ UNCHANGED files
            /\ IF config_repro_level = 4
               THEN IF compiler_name # "inductor"
                    THEN Complete(Raised("NotImplementedError"), <<>>)
                    ELSE /\ pc' = "backend_aot_accuracy_fails"
                         /\ UNCHANGED <<outcome, exc, pending,
                                        config_repro_after,
                                        saved_repro_after, call_site, events>>
               ELSE /\ pc' = "inner_compiled_fn"
                    /\ call_site' = "try"
                    /\ UNCHANGED <<outcome, exc, pending, config_repro_after,
                                   saved_repro_after, events>>
    /\ UNCHANGED <<config_repro_level, compiler_name, gm_graph, orig_graph,
                   example_inputs, real_inputs, passed_inputs, wrapped>>
    /\ UNCHANGED outside_capture

\* backend_aot_accuracy_fails(gm, real_inputs, compiler_fn): compiles and
\* runs on clones of the inputs and compares with the eager run.
BackendAotAccuracyFails(fails) ==
    /\ pc = "backend_aot_accuracy_fails"
    /\ events' = Append(events, Ev("backend_aot_accuracy_fails", fails))
    /\ pc' = IF fails THEN "accuracy_failed" ELSE "inner_compiled_fn"
    /\ call_site' = IF fails THEN "none" ELSE "accuracy_passed"
    /\ UNCHANGED <<config_repro_after, config_repro_level, compiler_name,
                   gm_graph, orig_graph, example_inputs, real_inputs,
                   passed_inputs, copy_tensor_attrs, wrapped, exc, pending,
                   saved_repro_after, outcome, checkpoints, repro_py,
                   minifier_launcher>>
    /\ UNCHANGED outside_capture

\* The accuracy comparison failed: both dumps, then AccuracyError.  A dump
\* that raises ends the function with its own exception.
InnerAccuracyFailed(end1, copy_ok, end2) ==
    /\ pc = "accuracy_failed"
    /\ end1 # "ok" => end2 = "ok"
    /\ DumpCompilerGraphState(GraphModule(orig_graph), real_inputs,
                              AccuracyName(compiler_name), end1, copy_ok)
    /\ IF end1 = "ok"
       THEN DumpToMinify(GraphModule(orig_graph), real_inputs,
                         AccuracyName(compiler_name), end2)
       ELSE UNCHANGED minifier_launcher
    /\ Complete(Raised(IF end1 = "ok" /\ end2 = "ok"
                       THEN "AccuracyError" ELSE "PersistError"),
                PersistEvents("dump_compiler_graph_state", end1)
                \o (IF end1 = "ok"
                    THEN PersistEvents("dump_to_minify", end2) ELSE <<>>))
    /\ UNCHANGED <<config_repro_level, compiler_name, gm_graph, orig_graph,
                   example_inputs, real_inputs, passed_inputs,
                   copy_tensor_attrs, wrapped>>
    /\ UNCHANGED outside_capture

\* inner_compiled_fn(real_inputs): the compiled callable.  It takes the
\* argument list boxed and may clear it; it returns or raises.
InnerCompiledFn(raises, clears) ==
    /\ pc = "inner_compiled_fn"
    /\ real_inputs' = IF clears THEN <<>> ELSE real_inputs
    /\ events' = Append(events, Ev("inner_compiled_fn", ~raises))
    /\ exc' = IF raises THEN "BackendRuntimeError" ELSE "none"
    /\ pc' = IF call_site = "try"
             THEN (IF raises THEN "inner_except" ELSE "inner_sync")
             ELSE "pass_result"
    /\ UNCHANGED <<config_repro_after, config_repro_level, compiler_name,
                   gm_graph, orig_graph, example_inputs, passed_inputs,
                   copy_tensor_attrs, wrapped, pending, saved_repro_after,
                   call_site, outcome, checkpoints, repro_py,
                   minifier_launcher>>
    /\ UNCHANGED outside_capture

\* The compiled callable takes the process down (a segfault, the case the
\* level-3 dump of lines 129-133 is there for): no handler runs, nothing
\* is returned or raised, the files stay as they are.
InnerCompiledFnCrashes ==
    /\ pc = "inner_compiled_fn"
    /\ pc' = "crashed"
    /\ events' = Append(events, Ev("crash", TRUE))
    /\ UNCHANGED <<config_repro_after, config_repro_level, compiler_name,
                   gm_graph, orig_graph, example_inputs, real_inputs,
                   passed_inputs, copy_tensor_attrs, wrapped, exc, pending,
                   saved_repro_after, call_site, outcome, checkpoints,
                   repro_py, minifier_launcher>>
    /\ UNCHANGED outside_capture

\* The compiled callable returned inside the try: synchronize when an
\* example input is a CUDA tensor, then return its result.  The
\* synchronization is where a fault of an asynchronous kernel surfaces; it is
\* inside the try, so its exception reaches the except clause.
InnerSyncReturn(sync_raises) ==
    /\ pc = "inner_sync"
    /\ sync_raises => AnyCuda(example_inputs)
    /\ IF sync_raises
       THEN /\ events' = Append(events, Ev("torch.cuda.synchronize", FALSE))
            /\ exc' = "CudaError"
            /\ pc' = "inner_except"
            /\ UNCHANGED <<outcome, pending, call_site, config_repro_after,
                           saved_repro_after>>
       ELSE Complete(Returned("out"),
                     IF AnyCuda(example_inputs)
                     THEN <<Ev("torch.cuda.synchronize", TRUE)>> ELSE <<>>)
    /\ UNCHANGED <<config_repro_level, compiler_name, gm_graph, orig_graph,
                   example_inputs, real_inputs, passed_inputs,
                   copy_tensor_attrs, wrapped, checkpoints, repro_py,
                   minifier_launcher>>
    /\ UNCHANGED outside_capture

\* Which persistence function the invocation-failure handler calls.
InnerExceptDump ==
    IF config_repro_level = 1 THEN "dump_compiler_graph_state"
    ELSE IF config_repro_level = 2 THEN "dump_to_minify"
    ELSE "none"

\* Mutant of InnerExcept: the exception reaches the caller in the step that
\* writes the checkpoint.
InnerExceptRaisesEarly(end, copy_ok) ==
    /\ pc = "inner_except"
    /\ InnerExceptDump = "none" => end = "ok" /\ copy_ok
    /\ Persist(InnerExceptDump, GraphModule(orig_graph), copy_tensor_attrs,
               compiler_name, end, copy_ok)
    /\ outcome' = Raised(exc)
    /\ pending' = Raised(exc)
    /\ events' = events \o PersistEvents(InnerExceptDump, end)
    /\ pc' = "leave"
    /\ exc' = "none"
    /\ UNCHANGED <<call_site, config_repro_after, saved_repro_after>>
    /\ UNCHANGED <<config_repro_level, compiler_name, gm_graph, orig_graph,
                   example_inputs, real_inputs, passed_inputs,
                   copy_tensor_attrs, wrapped>>
    /\ UNCHANGED outside_capture

\* except Exception inside inner_debug_fn: dump the fake copies at level 1 or
\* 2, raise.
InnerExcept(end, copy_ok) ==
    /\ pc = "inner_except"
    /\ InnerExceptDump = "none" => end = "ok" /\ copy_ok
    /\ Persist(InnerExceptDump, GraphModule(orig_graph), copy_tensor_attrs,
               compiler_name, end, copy_ok)
    /\ Complete(Raised(IF end = "ok" THEN exc ELSE "PersistError"),
                PersistEvents(InnerExceptDump, end))
    /\ UNCHANGED <<config_repro_level, compiler_name, gm_graph, orig_graph,
                   example_inputs, real_inputs, passed_inputs,
                   copy_tensor_attrs, wrapped>>
    /\ UNCHANGED outside_capture

\* `return inner_compiled_fn(real_inputs)`: the callable's result or
\* exception is the call's own.
PassResult ==
    /\ pc = "pass_result"
    /\ Complete(IF exc = "none" THEN Returned("out") ELSE Raised(exc), <<>>)
    /\ UNCHANGED <<config_repro_level, compiler_name, gm_graph, orig_graph,
                   example_inputs, real_inputs, passed_inputs,
                   copy_tensor_attrs, wrapped, checkpoints, repro_py,
                   minifier_launcher>>
    /\ UNCHANGED outside_capture

\* ------------------------------------------------------------------------
\* Re-entrant use: the calls the wrapper makes to the outside run regular
\* PyTorch compute, which may trigger Dynamo and with it debug_wrapper, or
\* may invoke the deferred invoker again (comment of lines 100-107).
\* ------------------------------------------------------------------------
\* The positions at which the wrapper's code is inside a call to the outside
ExternalCalls ==
    {"compiler_fn", "backend_aot_accuracy_fails", "inner_compiled_fn"}

\* The code of inner_debug_fn is running (lines 112-181), or a call it made
\* to the outside.
CapturePcs ==
    {"inner_debug_fn", "backend_aot_accuracy_fails", "accuracy_failed",
     "inner_sync", "inner_except"}
InCaptureLogic ==
    \/ pc \in CapturePcs
    \/ pc \in {"inner_compiled_fn", "pass_result", "crashed"}
          /\ call_site \in {"try", "accuracy_passed"}

\* The locals of the running call, and what the re-entrant call finds when
\* it starts.
Frame(kind) ==
    [kind |-> kind, gm_graph |-> gm_graph, orig_graph |-> orig_graph,
     real_inputs |-> real_inputs, passed_inputs |-> passed_inputs,
     copy_tensor_attrs |-> copy_tensor_attrs, wrapped |-> wrapped,
     pc |-> pc, exc |-> exc, pending |-> pending,
     saved_repro_after |-> saved_repro_after, call_site |-> call_site,
     events |-> events, outcome |-> outcome,
     in_capture |-> InCaptureLogic, mode |-> config_repro_after,
     files |-> files]

\* From inside a call to the outside the same process compiles with the
\* wrapped backend (kind "compile": debug_wrapper runs for a module of its
\* own) or invokes the deferred invoker it holds (kind "invoke").  The call
\* gets a frame of its own; the configuration and the files are shared.
ReentrantCall(kind) ==
    /\ pc \in ExternalCalls
    /\ ReentryIdle
    /\ kind = "invoke" => wrapped = "deferred_for_real_inputs"
    /\ suspended' = Frame(kind)
    /\ wrapped' = IF kind = "compile" THEN "none" ELSE wrapped
    /\ pc' = "idle"
    /\ exc' = "none"
    /\ pending' = NoOutcome
    /\ saved_repro_after' = "unset"
    /\ call_site' = "none"
    /\ events' = <<>>
    /\ outcome' = NoOutcome
    /\ real_inputs' = <<>>
    /\ passed_inputs' = <<>>
    /\ copy_tensor_attrs' = <<>>
    /\ UNCHANGED <<config_repro_after, config_repro_level, compiler_name,
                   gm_graph, orig_graph, example_inputs, checkpoints,
                   repro_py, minifier_launcher, reentry>>
    /\ UNCHANGED outside_reentry

\* The re-entrant call is left: its config.patch context, if it entered
\* one, is exited, and the waiting frame goes on where it was.
ReentrantLeave ==
    /\ pc = "leave"
    /\ suspended # NoFrame
    /\ config_repro_after' = IF saved_repro_after = "unset"
                             THEN config_repro_after
                             ELSE saved_repro_after
    /\ reentry' = [kind |-> suspended.kind,
                   in_capture |-> suspended.in_capture,
                   mode |-> suspended.mode,
                   result |-> pending,
                   events |-> events,
                   copies |-> copy_tensor_attrs,
                   patched |-> saved_repro_after # "unset",
                   wrote |-> files # suspended.files]
    /\ suspended' = NoFrame
    /\ gm_graph' = suspended.gm_graph
    /\ orig_graph' = suspended.orig_graph
    /\ real_inputs' = suspended.real_inputs
    /\ passed_inputs' = suspended.passed_inputs
    /\ copy_tensor_attrs' = suspended.copy_tensor_attrs
    /\ wrapped' = suspended.wrapped
    /\ pc' = suspended.pc
    /\ exc' = suspended.exc
    /\ pending' = suspended.pending
    /\ saved_repro_after' = suspended.saved_repro_after
    /\ call_site' = suspended.call_site
    /\ events' = suspended.events
    /\ outcome' = suspended.outcome
    /\ UNCHANGED <<config_repro_level, compiler_name, example_inputs,
                   checkpoints, repro_py, minifier_launcher>>
    /\ UNCHANGED outside_reentry

\* ========================================================================
\* Part VIII: the sparse sample-input and error-input generators
\* ========================================================================
Layouts == {"sparse_coo", "sparse_csr", "sparse_csc", "sparse_bsr",
            "sparse_bsc"}
CompressedLayouts == Layouts \ {"sparse_coo"}
BlockLayouts == {"sparse_bsr", "sparse_bsc"}

\* The reduction operations handed to the generators: sum, and one that
\* _validate_sample_input_sparse_reduction has no branch for.
OpNames == {"sum", "prod"}

\* kwargs["dim"]: missing, an int, or a tuple of len entries
NoDim == [kind |-> "None", len |-> 0]
IntDim == [kind |-> "int", len |-> 0]
TupleDim(n) == [kind |-> "tuple", len |-> n]

\* SampleInput(input, kwargs=dict(dim=.., keepdim=..)): the layout and the
\* number of dimensions of the input, the kwargs, and where in which
\* generator the sample was made.
SampleInput(layout, ndim, dim, keepdim, origin, idx) ==
    [kind |-> "SampleInput", layout |-> layout, ndim |-> ndim, dim |-> dim,
     keepdim |-> keepdim, origin |-> origin, idx |-> idx]

\* ErrorInput(sample, error_type=RuntimeError, error_regex=..)
ErrorInput(sample, error_type, error_regex) ==
    [kind |-> "ErrorInput", sample_input |-> sample,
     error_type |-> error_type, error_regex |-> error_regex]

\* _maybe_failing_sample_inputs_sparse_reduction_sum: six samples for the
\* compressed layouts (the block layouts get the same six with a blocksize),
\* none for sparse_coo.
MaybeFailingSampleInputs(layout) ==
    IF layout \in CompressedLayouts
    THEN <<SampleInput(layout, 2, IntDim, "True", "maybe_failing", 1),
           SampleInput(layout, 3, IntDim, "None", "maybe_failing", 2),
           SampleInput(layout, 2, TupleDim(1), "None", "maybe_failing", 3),
           SampleInput(layout, 2, TupleDim(1), "True", "maybe_failing", 4),
           SampleInput(layout, 3, TupleDim(1), "None", "maybe_failing", 5),
           SampleInput(layout, 2, IntDim, "None", "maybe_failing", 6)>>
    ELSE <<>>

\* What sample_inputs_sparse_reduction hands over: two-dimensional inputs
\* in the layout asked for, without kwargs, with dim=0, and with dim=0 and
\* keepdim=True.
SparseReductionKwargs ==
    {[dim |-> NoDim, keepdim |-> "None"],
     [dim |-> IntDim, keepdim |-> "None"],
     [dim |-> IntDim, keepdim |-> "True"]}
SampleInputsSparseReduction(layout, kw) ==
    [i \in DOMAIN kw |->
        SampleInput(layout, 2, kw[i].dim, kw[i].keepdim, "regular", i)]

\* bool(t_kwargs): the kwargs dict is not empty
HasKwargs(sample) == sample.dim # NoDim \/ sample.keepdim # "None"

\* _validate_sample_input_sparse_reduction_sum(sample)
ValidateSampleInputSparseReductionSum(sample) ==
    LET dim == sample.dim
        keepdim == sample.keepdim = "True"
    IN  IF sample.layout \notin CompressedLayouts THEN sample
        ELSE IF \/ dim.kind = "int" /\ (sample.ndim # 2 \/ keepdim)
                \/ dim.kind = "tuple"
                      /\ ((sample.ndim # 2 /\ dim.len # sample.ndim) \/ keepdim)
        THEN IF sample.layout \in BlockLayouts
             THEN ErrorInput(sample, "RuntimeError", "empty_sparse_compressed")
             ELSE ErrorInput(sample, "NotImplementedError",
                             "aten::sum.IntList_out")
        ELSE IF HasKwargs(sample) /\ ~keepdim
        THEN ErrorInput(sample, "RuntimeError", "torch.empty")
        ELSE sample

\* _validate_sample_input_sparse_reduction(op_info, sample): the branch for
\* sum; the branches for the masked reductions apply to neither operation.
ValidateSampleInputSparseReduction(op_name, sample) ==
    IF op_name = "sum" THEN ValidateSampleInputSparseReductionSum(sample)
    ELSE sample

NoGenerators ==
    [op_name |-> "sum", layout |-> "sparse_coo", regular |-> <<>>,
     s_regular |-> 0, s_maybe |-> 0, s_yielded |-> <<>>,
     e_maybe |-> 0, e_yielded |-> <<>>]
SparseIdle == sparse_gen = NoGenerators

\* sample_inputs_sparse_reduction_sum(op_info, .., layout) and
\* error_inputs_sparse_reduction_sum(op_info, .., layout) are called for the
\* same operation and layout; s_regular, s_maybe and e_maybe count the
\* source samples each loop has taken.
SparseInit ==
    \E op_name \in OpNames, layout \in Layouts,
       kw \in SeqsUpTo(SparseReductionKwargs, MaxSamples) :
       sparse_gen = [NoGenerators EXCEPT
                        !.op_name = op_name, !.layout = layout,
                        !.regular = SampleInputsSparseReduction(layout, kw)]

\* What a loop does with one source sample: validate, and yield when the
\* result is an instance of the wanted class.
YieldIf(yielded, sample, wanted) ==
    LET v == ValidateSampleInputSparseReduction(sparse_gen.op_name, sample)
    IN  IF v.kind = wanted THEN Append(yielded, v) ELSE yielded

\* _sample_inputs_sparse, first loop (lines 55-59)
SampleInputsSparseRegular ==
    /\ sparse_gen.s_regular < Len(sparse_gen.regular)
    /\ sparse_gen' =
         [sparse_gen EXCEPT
            !.s_regular = @ + 1,
            !.s_yielded = YieldIf(@, sparse_gen.regular[sparse_gen.s_regular + 1],
                                  "SampleInput")]
    /\ UNCHANGED outside_sparse

\* _sample_inputs_sparse, second loop (lines 61-64)
SampleInputsSparseMaybeFailing ==
    /\ sparse_gen.s_regular = Len(sparse_gen.regular)
    /\ sparse_gen.s_maybe < Len(MaybeFailingSampleInputs(sparse_gen.layout))
    /\ sparse_gen' =
         [sparse_gen EXCEPT
            !.s_maybe = @ + 1,
            !.s_yielded =
               YieldIf(@, MaybeFailingSampleInputs(sparse_gen.layout)
                             [sparse_gen.s_maybe + 1],
                       "SampleInput")]
    /\ UNCHANGED outside_sparse

\* Mutant of ErrorInputsSparse: whatever validation returns is yielded.
ErrorInputsSparseYieldsAll ==
    /\ sparse_gen.e_maybe < Len(MaybeFailingSampleInputs(sparse_gen.layout))
    /\ sparse_gen' =
         [sparse_gen EXCEPT
            !.e_maybe = @ + 1,
            !.e_yielded =
               Append(@, ValidateSampleInputSparseReduction(
                            sparse_gen.op_name,
                            MaybeFailingSampleInputs(sparse_gen.layout)
                               [sparse_gen.e_maybe + 1]))]
    /\ UNCHANGED outside_sparse

\* _error_inputs_sparse (lines 67-76)
ErrorInputsSparse ==
    /\ sparse_gen.e_maybe < Len(MaybeFailingSampleInputs(sparse_gen.layout))
    /\ sparse_gen' =
         [sparse_gen EXCEPT
            !.e_maybe = @ + 1,
            !.e_yielded =
               YieldIf(@, MaybeFailingSampleInputs(sparse_gen.layout)
                             [sparse_gen.e_maybe + 1],
                       "ErrorInput")]
    /\ UNCHANGED outside_sparse

\* ========================================================================
\* Properties of the capture wrapper (specification Spec)
\* ========================================================================
DumpOps == {"dump_compiler_graph_state", "dump_to_minify"}
HasEvent(evs, op, ok) == \E i \in DOMAIN evs : evs[i] = Ev(op, ok)

\* The script a checkpoint of graph g and arguments args must hold.
Checkpoint(g, args, name, command) ==
    [graph |-> g, args |-> args, compiler_name |-> name,
     accuracy |-> name \in {"inductor_accuracy", "nvfuser_accuracy"},
     command |-> command, complete |-> TRUE]

\* Metadata-only image of an argument list: every tensor without content.
MetadataOnly(args) ==
    [i \in DOMAIN args |->
        IF args[i].kind = "tensor"
        THEN [kind |-> "tensor", is_cuda |-> args[i].is_cuda, content |-> "fake"]
        ELSE args[i]]

\* The current step is the one in which the caller invokes what
\* debug_wrapper returned.
InvocationStep == pc = "idle" /\ pc' \notin {"idle", "compiler_fn"}

\* C1 (as claimed): whenever the backend compile call or the compiled
\* callable raised E, the error the caller observes is E, whether or not the
\* checkpoint could be written.
C1_CaptureNeverMasks ==
    outcome.kind # "none" =>
        /\ HasEvent(events, "compiler_fn", FALSE)
              => outcome = Raised("BackendCompileError")
        /\ HasEvent(events, "inner_compiled_fn", FALSE)
              => outcome = Raised("BackendRuntimeError")

\* C2: every step that writes a checkpoint file is taken while the caller
\* has observed nothing of the call, and the step in which an exception
\* becomes observable writes no file: persistence is complete before the
\* exception propagates.
C2_PersistBeforePropagate ==
    [][/\ files' # files => outcome = NoOutcome /\ outcome' = NoOutcome
       /\ (outcome' # outcome /\ outcome'.kind = "raise")
             => /\ files' = files
                /\ pc = "leave"
                /\ \A i \in DOMAIN events : events[i].op \notin {"raise", "return"}
      ]_vars

C2_Witness ==
    /\ pc = "leave"
    /\ pending = Raised("BackendRuntimeError")
    /\ outcome = NoOutcome
    /\ HasEvent(events, "dump_compiler_graph_state", TRUE)
    /\ \E c \in checkpoints : c.script.complete

\* C3 (as claimed): when the compile call raises and repro_after is "aot",
\* the handler calls a persistence function at every level 1..4, the
\* checkpoint holds the pre-compilation graph and the example inputs, and
\* the exception is re-raised.  (A persistence call that itself raises is
\* the matter of C1 and is not held against this statement.)
C3_CompileCaptureAtEveryLevel ==
    [][(pc = "compile_except" /\ config_repro_after = "aot")
          => /\ Len(events') = Len(events) + 1
             /\ events'[Len(events')].op \in DumpOps
             /\ events'[Len(events')].ok
                   => pending' = Raised("BackendCompileError")
      ]_vars

\* C3 (amended): the deep copy is taken before the compile call and the
\* compile call leaves it alone; when the compile call raises under "aot",
\* level 1 calls dump_compiler_graph_state and level 2 dump_to_minify on that
\* copy and the example inputs, levels 3 and 4 write nothing; the call then
\* raises the compile error, or the dump's own error when the dump raised.
C3_CompileCaptureLevels12 ==
    [][/\ pc' = "compiler_fn" => orig_graph' = gm_graph'
       /\ pc = "compiler_fn" => orig_graph' = orig_graph
       /\ (pc = "compile_except" /\ config_repro_after = "aot") =>
            LET last == events'[Len(events')]
                run == Checkpoint(orig_graph, example_inputs, compiler_name, "run")
                minify == Checkpoint(orig_graph, example_inputs, compiler_name, "minify")
            IN  /\ pc' = "leave"
                /\ config_repro_level = 1 =>
                     /\ events' = Append(events, last)
                     /\ last.op = "dump_compiler_graph_state"
                     /\ minifier_launcher' = minifier_launcher
                     /\ IF last.ok
                        THEN /\ [file |-> orig_graph.nodes, script |-> run]
                                    \in checkpoints'
                             /\ pending' = Raised("BackendCompileError")
                        ELSE pending' = Raised("PersistError")
                /\ config_repro_level = 2 =>
                     /\ events' = Append(events, last)
                     /\ last.op = "dump_to_minify"
                     /\ checkpoints' = checkpoints
                     /\ IF last.ok
                        THEN /\ minifier_launcher' = {minify}
                             /\ pending' = Raised("BackendCompileError")
                        ELSE pending' = Raised("PersistError")
                /\ config_repro_level \in {3, 4} =>
                     /\ events' = events
                     /\ files' = files
                     /\ pending' = Raised("BackendCompileError")
      ]_vars

C3_Witness ==
    /\ pc = "leave"
    /\ pending = Raised("BackendCompileError")
    /\ config_repro_after = "aot"
    /\ config_repro_level = 1
    /\ gm_graph # orig_graph
    /\ HasEvent(events, "dump_compiler_graph_state", TRUE)
    /\ [file |-> orig_graph.nodes,
        script |-> Checkpoint(orig_graph, example_inputs, compiler_name, "run")]
          \in checkpoints

\* C4 (as claimed): when the compiled callable raises under capture, the
\* checkpoint the handler persists holds the real inputs that were passed to
\* the invocation, and the original exception is re-raised.
C4_InvocationCaptureRealInputs ==
    [][(pc = "inner_except" /\ pc' = "leave"
        /\ Len(events') = Len(events) + 1 /\ events'[Len(events')].ok)
          => /\ pending' = Raised(exc)
             /\ events'[Len(events')].op = "dump_compiler_graph_state"
                   => \E c \in checkpoints' :
                         /\ c.file = orig_graph.nodes
                         /\ c.script.args = passed_inputs
             /\ events'[Len(events')].op = "dump_to_minify"
                   => \E c \in minifier_launcher' : c.args = passed_inputs
      ]_vars

\* C4 (amended): the checkpoint the handler persists (level 1:
\* dump_compiler_graph_state, level 2: dump_to_minify) holds the copied graph
\* and the metadata-only copies of the inputs taken on entry, not their
\* contents; at level 3 the handler writes nothing (the launcher written on
\* entry holds the real inputs); at level 4 a raising callable leaves no
\* checkpoint.  The call raises the original exception, or the dump's own
\* error when the dump raised.
C4_InvocationCaptureFakeCopies ==
    [][/\ pc = "inner_except" =>
            LET last == events'[Len(events')]
                fake == MetadataOnly(passed_inputs)
                run == Checkpoint(orig_graph, fake, compiler_name, "run")
                minify == Checkpoint(orig_graph, fake, compiler_name, "minify")
            IN  /\ pc' = "leave"
                /\ config_repro_level = 1 =>
                     /\ events' = Append(events, last)
                     /\ last.op = "dump_compiler_graph_state"
                     /\ minifier_launcher' = minifier_launcher
                     /\ IF last.ok
                        THEN /\ [file |-> orig_graph.nodes, script |-> run]
                                    \in checkpoints'
                             /\ pending' = Raised(exc)
                        ELSE pending' = Raised("PersistError")
                /\ config_repro_level = 2 =>
                     /\ events' = Append(events, last)
                     /\ last.op = "dump_to_minify"
                     /\ checkpoints' = checkpoints
                     /\ IF last.ok
                        THEN /\ minifier_launcher' = {minify}
                             /\ pending' = Raised(exc)
                        ELSE pending' = Raised("PersistError")
                /\ config_repro_level = 3 =>
                     /\ events' = events
                     /\ files' = files
                     /\ minifier_launcher =
                          {Checkpoint(orig_graph, passed_inputs,
                                      compiler_name, "minify")}
                     /\ pending' = Raised(exc)
                /\ config_repro_level # 4
       /\ (pc = "pass_result" /\ call_site = "accuracy_passed" /\ exc # "none")
            => files' = files /\ pending' = Raised(exc)
      ]_vars

C4_Witness ==
    /\ pc = "leave"
    /\ pending = Raised("BackendRuntimeError")
    /\ config_repro_level = 1
    /\ HasEvent(events, "inner_compiled_fn", FALSE)
    /\ HasEvent(events, "dump_compiler_graph_state", TRUE)
    /\ \E i \in DOMAIN passed_inputs : passed_inputs[i].kind = "tensor"
    /\ \E c \in checkpoints :
          /\ c.file = orig_graph.nodes
          /\ c.script.args = MetadataOnly(passed_inputs)
          /\ c.script.args # passed_inputs

\* C5 (as claimed): at level 4 with the inductor backend, a failed accuracy
\* comparison makes the invoker persist a checkpoint of the copied graph and
\* the real inputs and raise AccuracyError; a passed comparison writes no
\* checkpoint and the call ends with the compiled callable's result.
C5_AccuracyMode ==
    [][/\ pc = "accuracy_failed" =>
            /\ pending' = Raised("AccuracyError")
            /\ [file |-> orig_graph.nodes,
                script |-> Checkpoint(orig_graph, passed_inputs,
                                      "inductor_accuracy", "run")]
                  \in checkpoints'
            /\ minifier_launcher' =
                  {Checkpoint(orig_graph, passed_inputs,
                              "inductor_accuracy", "minify")}
       /\ (pc = "backend_aot_accuracy_fails" /\ pc' # "accuracy_failed")
            => files' = files /\ pc' = "inner_compiled_fn"
       /\ (pc \in {"inner_compiled_fn", "pass_result"}
           /\ call_site = "accuracy_passed")
            => files' = files
       /\ (pc = "pass_result" /\ call_site = "accuracy_passed")
            => pending' = IF exc = "none" THEN Returned("out") ELSE Raised(exc)
      ]_vars

\* C6: at level 4 with a backend other than inductor, an invocation that
\* enters the capture path ends with NotImplementedError: the accuracy
\* comparison does not run, the compiled callable is not invoked, nothing is
\* written and no result is returned.
C6_AccuracyModeUnsupportedBackend ==
    [][/\ (InvocationStep /\ wrapped = "deferred_for_real_inputs"
           /\ config_repro_after = "aot")
            => pc' = "inner_debug_fn" /\ events' = <<>>
       /\ (pc = "inner_debug_fn" /\ config_repro_level = 4
           /\ compiler_name # "inductor")
            => /\ pc' = "leave"
               /\ pending' = Raised("NotImplementedError")
               /\ events' = <<>>
               /\ files' = files
       /\ (pc = "leave" /\ pending = Raised("NotImplementedError"))
            => /\ outcome' = Raised("NotImplementedError")
               /\ ~HasEvent(events', "backend_aot_accuracy_fails", TRUE)
               /\ ~HasEvent(events', "backend_aot_accuracy_fails", FALSE)
               /\ ~HasEvent(events', "inner_compiled_fn", TRUE)
               /\ ~HasEvent(events', "inner_compiled_fn", FALSE)
      ]_vars

C6_Witness ==
    /\ pc = "idle"
    /\ config_repro_level = 4
    /\ compiler_name = "nvfuser"
    /\ wrapped = "deferred_for_real_inputs"
    /\ outcome = Raised("NotImplementedError")

\* C7: with capture off when debug_wrapper looks at the mode, a failing
\* compile writes nothing and a successful one returns the backend's
\* callable itself, whose invocations never touch the checkpoint files; with
\* capture on at wrap time and off at invocation time the deferred invoker
\* calls the compiled callable directly on the list it was given, takes no
\* copies, patches no configuration, writes nothing, does not synchronize
\* and ends with the callable's own result or exception (or goes down with
\* the callable when the callable takes the process down).
PassThroughSites == {"caller", "deferred_for_real_inputs"}

C7_DisabledIsPassThrough ==
    [][/\ (pc = "compile_except" /\ config_repro_after # "aot")
            => files' = files /\ events' = events /\ pending' = Raised(exc)
       /\ (pc = "compile_return" /\ config_repro_after # "aot")
            => /\ files' = files
               /\ wrapped' = "inner_compiled_fn"
               /\ pending' = Returned("inner_compiled_fn")
       /\ (InvocationStep /\ wrapped = "inner_compiled_fn")
            => pc' = "inner_compiled_fn" /\ call_site' = "caller"
       /\ (InvocationStep /\ wrapped = "deferred_for_real_inputs"
           /\ config_repro_after # "aot")
            => /\ pc' = "inner_compiled_fn"
               /\ call_site' = "deferred_for_real_inputs"
               /\ real_inputs' = passed_inputs'
               /\ config_repro_after' = config_repro_after
               /\ saved_repro_after' = "unset"
       /\ (call_site \in PassThroughSites \/ call_site' \in PassThroughSites)
            => /\ files' = files
               /\ copy_tensor_attrs' = <<>>
               /\ config_repro_after' = config_repro_after
               /\ \A i \in DOMAIN events' :
                     events'[i].op \notin DumpOps \cup {"torch.cuda.synchronize",
                                                       "backend_aot_accuracy_fails"}
       /\ (pc = "inner_compiled_fn" /\ call_site \in PassThroughSites)
            => pc' \in {"pass_result", "crashed"}
       /\ (pc = "pass_result" /\ call_site \in PassThroughSites)
            => pending' = IF exc = "none" THEN Returned("out") ELSE Raised(exc)
      ]_vars

C7_Witness ==
    /\ pc = "idle"
    /\ wrapped = "deferred_for_real_inputs"
    /\ config_repro_after # "aot"
    /\ config_repro_level \in {1, 2}
    /\ outcome = Raised("BackendRuntimeError")
    /\ events = <<Ev("inner_compiled_fn", FALSE), Ev("raise", TRUE)>>

\* C8 (as claimed): at every level, an invocation on the capture path in
\* which the compiled callable returned normally and some input is a CUDA
\* tensor synchronizes the device after the compiled call before it returns.
C8_SyncBeforeSuccess ==
    [][(pc \in {"inner_sync", "pass_result"} /\ saved_repro_after # "unset"
        /\ pending'.kind = "return" /\ AnyCuda(passed_inputs))
          => \E i, j \in DOMAIN events' :
                /\ i < j
                /\ events'[i] = Ev("inner_compiled_fn", TRUE)
                /\ events'[j] = Ev("torch.cuda.synchronize", TRUE)
      ]_vars


\* C28: a checkpoint file is named by the node count of the graph it holds
\* and by nothing else, so the checkpoints directory never holds two files
\* for one node count; a write for a node count that already has a file
\* replaces that file's content and touches no other file.
C28_CheckpointNaming ==
    /\ [](\A c, d \in checkpoints :
            /\ c.file = c.script.graph.nodes
            /\ c.file = d.file => c = d)
    /\ [][checkpoints' # checkpoints =>
             \E d \in checkpoints' :
                checkpoints' = {c \in checkpoints : c.file # d.file} \cup {d}
         ]_vars

\* repro.py still holds the script an earlier write put into <n>.py and
\* <n>.py, alone for its node count, now holds a later write.
C28_Witness ==
    \E a \in repro_py, c \in checkpoints :
       /\ c.file = a.graph.nodes
       /\ c.script # a
       /\ Cardinality({d \in checkpoints : d.file = c.file}) = 1

\* The launcher dump_to_minify writes for the invocation under way: the
\* copied graph and the inputs the caller passed.
EntryCheckpoint ==
    Checkpoint(orig_graph, passed_inputs, compiler_name, "minify")

PassedThrough(r) ==
    /\ r.mode = "None"
    /\ ~r.patched
    /\ ~r.wrote
    /\ r.copies = <<>>
    /\ \A i \in DOMAIN r.events :
          r.events[i].op \notin DumpOps \cup {"backend_aot_accuracy_fails",
                                             "torch.cuda.synchronize"}
    /\ r.kind = "compile" =>
          r.result \in {Returned("inner_compiled_fn"),
                        Raised("BackendCompileError")}
    /\ r.kind = "invoke" =>
          r.result \in {Returned("out"), Raised("BackendRuntimeError")}

\* C32: while inner_debug_fn runs (the calls it makes to the outside
\* included) config.repro_after is None and the value config.patch will
\* restore is the "aot" the invoker found; a debug_wrapper call or a
\* deferred invocation made from inside it takes no capture branch, enters
\* no patch and leaves the files alone; the step that leaves the invoker,
\* with a result or with an exception, puts config.repro_after back to the
\* value it had when the invoker was called.
C32_RecursionGuard ==
    /\ [](InCaptureLogic =>
             config_repro_after = "None" /\ saved_repro_after = "aot")
    /\ []((suspended # NoFrame /\ suspended.in_capture) =>
             /\ config_repro_after = "None"
             /\ saved_repro_after = "unset"
             /\ pc \notin CapturePcs
             /\ call_site \in {"none", "deferred_for_real_inputs"}
             /\ copy_tensor_attrs = <<>>
             /\ files = suspended.files)
    /\ []((reentry # NoReentry /\ reentry.in_capture)
             => PassedThrough(reentry))
    /\ [][/\ (InvocationStep /\ pc' = "inner_debug_fn")
               => /\ saved_repro_after' = config_repro_after
                  /\ config_repro_after' = "None"
          /\ (saved_repro_after # "unset" /\ pc # "leave"
              /\ suspended' = suspended)
               => /\ saved_repro_after' = saved_repro_after
                  /\ config_repro_after' = config_repro_after
          /\ (suspended # suspended' /\ InCaptureLogic)
               => suspended'.saved_repro_after = saved_repro_after
          /\ (suspended # suspended' /\ suspended # NoFrame)
               => /\ saved_repro_after' = suspended.saved_repro_after
                  /\ suspended.in_capture => config_repro_after' = "None"
          /\ (pc = "leave" /\ saved_repro_after # "unset")
               => /\ config_repro_after' = saved_repro_after
                  /\ saved_repro_after' = "unset"
                  /\ outcome' = pending
                  /\ pending.kind \in {"return", "raise"}
         ]_vars

\* The invoker has raised after a re-entrant invocation of itself passed
\* through, and the mode is "aot" again.
C32_Witness ==
    /\ pc = "idle"
    /\ outcome.kind = "raise"
    /\ config_repro_after = "aot"
    /\ reentry # NoReentry
    /\ reentry.kind = "invoke"
    /\ reentry.in_capture
    /\ reentry.result = Returned("out")

\* ========================================================================
\* Part II: InputWriter, and the replay of its script
\* ========================================================================
Dtypes == {"float32", "float64"}
Devices == {"cpu", "cuda"}
Contents == {"a", "b"}
Shapes == {<<2, 2>>}
Strides == {<<2, 1>>, <<1, 2>>}

\* dtype.itemsize
ItemSize(dtype) == IF dtype = "float64" THEN 8 ELSE 4

Offsets == {0, 1}

\* Every buffer holds five float64 elements, enough for every view below.
StorageNBytes == ItemSize("float64") * 5

\* A live untyped storage: its device, the device its tensors report
\* (a FakeTensor's storage is on "meta", the tensor itself on the fake
\* device), and its bytes.  A meta storage has no bytes.
StorageKinds ==
    {k \in [device : Devices \cup {"meta"}, tensor_device : Devices,
            content : Contents \cup {"none"}, nbytes : {StorageNBytes}] :
        IF k.device = "meta"
        THEN k.content = "none"
        ELSE k.tensor_device = k.device /\ k.content # "none"}

\* Buffers are interchangeable, so sessions are enumerated up to a renaming
\* of the buffers: the kinds are listed in a fixed order.
KindRank(k) ==
    (IF k.device = "cpu" THEN 0 ELSE IF k.device = "cuda" THEN 2 ELSE 4)
    + (IF k.content = "b" \/ (k.device = "meta" /\ k.tensor_device = "cuda")
       THEN 1 ELSE 0)

StorageIds == 1..MaxStorages

\* A tensor: a view over one storage.  The views of the universe differ
\* from the default view (contiguous, offset 0, float32) in one field or in
\* all of them.
Tensors ==
    {t \in [storage : StorageIds, shape : Shapes, stride : Strides,
            storage_offset : Offsets, dtype : Dtypes] :
        LET special == (IF t.stride # <<2, 1>> THEN 1 ELSE 0)
                       + (IF t.storage_offset # 0 THEN 1 ELSE 0)
                       + (IF t.dtype # "float32" THEN 1 ELSE 0)
        IN  special # 2}

\* t.device
TensorDevice(t) == storages[t.storage].tensor_device

\* Optional script fields: None stands for a field the line does not carry.
NoStride == [given |-> FALSE, val |-> <<>>]
SomeStride(v) == [given |-> TRUE, val |-> v]
NoOffset == [given |-> FALSE, val |-> 0]
SomeOffset(v) == [given |-> TRUE, val |-> v]

RECURSIVE ProductFrom(_, _)
\* product of max(shape[j], 1) for j >= i
ProductFrom(shape, i) ==
    IF i > Len(shape) THEN 1
    ELSE (IF shape[i] > 1 THEN shape[i] ELSE 1) * ProductFrom(shape, i + 1)

\* utils.make_contiguous_strides_for(shape): row-major strides
MakeContiguousStridesFor(shape) ==
    [i \in 1..Len(shape) |-> ProductFrom(shape, i + 1)]

StrideOrDefault(stride, shape) ==
    IF stride.given THEN stride.val ELSE MakeContiguousStridesFor(shape)
DtypeOrDefault(dtype) == IF dtype # "None" THEN dtype ELSE "float32"
DeviceOrDefault(device) == IF device # "None" THEN device ELSE "cpu"
StorageOffsetOrDefault(off) == IF off.given THEN off.val ELSE 0

\* ContentStoreWriter.write_storage: the hash is a function of the bytes.
HashOf(content) == IF content = "a" THEN "hash_a" ELSE "hash_b"

NoName == -1

\* Mutant of SeenName: the dedup map is keyed by content.
SeenNameByContent(s) ==
    IF \E s2 \in DOMAIN seen_storages :
          storages[s2].content = storages[s].content
    THEN seen_storages[CHOOSE s2 \in DOMAIN seen_storages :
                          storages[s2].content = storages[s].content]
    ELSE NoName

\* self.seen_storages.get(StorageWeakRef(untyped_storage))
SeenName(s) ==
    IF s \in DOMAIN seen_storages THEN seen_storages[s] ELSE NoName

\* InputWriter.storage(untyped_storage, dtype_hint=, device_hint=): what the
\* call leaves behind and how it ends.  The counter is advanced before the
\* device-hint assertion and before the write to the content store, so a
\* call that raises has used up a name.
StorageCall(s, dtype_hint, device_hint, write_ok) ==
    LET st == storages[s]
        v == SeenName(s)
        device == IF st.device = "meta" THEN device_hint ELSE st.device
        writes == store_present /\ st.device # "meta"
        line == [op |-> "storage",
                 name |-> storage_counter,
                 hash |-> IF writes THEN HashOf(st.content) ELSE "None",
                 nbytes |-> st.nbytes,
                 device |-> IF DeviceOrDefault("None") # device
                            THEN device ELSE "None",
                 dtype_hint |-> IF DtypeOrDefault("None") # DtypeOrDefault(dtype_hint)
                                THEN dtype_hint ELSE "None"]
        same == [raised |-> "none", name |-> v, lines |-> w_lines,
                 source |-> line_source, counter |-> storage_counter,
                 seen |-> seen_storages, store |-> store]
    IN  IF v # NoName THEN same
        ELSE IF st.device = "meta" /\ device_hint = "None"
        THEN [same EXCEPT !.raised = "AssertionError",
                          !.counter = storage_counter + 1]
        ELSE IF writes /\ ~write_ok
        THEN [same EXCEPT !.raised = "WriteError",
                          !.counter = storage_counter + 1]
        ELSE [raised |-> "none",
              name |-> storage_counter,
              lines |-> Append(w_lines, line),
              source |-> Append(line_source, s),
              counter |-> storage_counter + 1,
              seen |-> [x \in DOMAIN seen_storages \cup {s} |->
                          IF x = s THEN storage_counter ELSE seen_storages[x]],
              store |-> IF writes
                           /\ \A e \in store : e.hash # HashOf(st.content)
                        THEN store \cup {[hash |-> HashOf(st.content),
                                          content |-> st.content,
                                          device |-> st.device,
                                          nbytes |-> st.nbytes]}
                        ELSE store]

\* The reader.tensor line InputWriter.tensor emits for t over buffer `name`.
TensorLine(name, t) ==
    [op |-> "tensor",
     storage |-> name,
     shape |-> t.shape,
     stride |-> IF StrideOrDefault(NoStride, t.shape) # t.stride
                THEN SomeStride(t.stride) ELSE NoStride,
     storage_offset |-> IF StorageOffsetOrDefault(NoOffset) # t.storage_offset
                        THEN SomeOffset(t.storage_offset) ELSE NoOffset,
     dtype |-> IF DtypeOrDefault("None") # t.dtype THEN t.dtype ELSE "None"]

\* No script has been replayed.
NotLoaded ==
    [done |-> FALSE, has_store |-> FALSE, reader_store |-> {},
     pbar_total |-> 0, error |-> "none", args |-> <<>>, updates |-> 0,
     made |-> <<>>, warnings |-> {}]

\* load_args._version: the attribute is missing, or it is an integer.
NoVersion == [given |-> FALSE, val |-> 0]
SomeVersion(v) == [given |-> TRUE, val |-> v]

ReaderInit ==
    /\ gen = "running"
    /\ nop_total = 0
    /\ loaded = NotLoaded
    /\ load_args_version = NoVersion

WriterInit ==
    /\ storages \in [StorageIds -> StorageKinds]
    /\ \A s1, s2 \in StorageIds :
          s1 < s2 => KindRank(storages[s1]) <= KindRank(storages[s2])
    /\ store_present \in BOOLEAN
    /\ store = {}
    /\ w_lines = <<>>
    /\ storage_counter = 0
    /\ seen_storages = <<>>
    /\ w_result = "none"
    /\ w_calls = 0
    /\ line_source = <<>>
    /\ captured = <<>>
    /\ ReaderInit

\* No writer session (Part I).
WriterIdle ==
    /\ storages = [s \in StorageIds |->
                     [device |-> "cpu", tensor_device |-> "cpu",
                      content |-> "a", nbytes |-> StorageNBytes]]
    /\ store_present = FALSE
    /\ store = {}
    /\ w_lines = <<>>
    /\ storage_counter = 0
    /\ seen_storages = <<>>
    /\ w_result = "none"
    /\ w_calls = 0
    /\ line_source = <<>>
    /\ captured = <<>>
    /\ ReaderInit

\* The wrapper is not in use (Part II).
CaptureIdle ==
    /\ ReentryIdle
    /\ config_repro_after = "None"
    /\ config_repro_level = 1
    /\ compiler_name = "inductor"
    /\ gm_graph = [nodes |-> 1, state |-> "traced"]
    /\ orig_graph = [nodes |-> 1, state |-> "traced"]
    /\ example_inputs = <<>>
    /\ real_inputs = <<>>
    /\ passed_inputs = <<>>
    /\ copy_tensor_attrs = <<>>
    /\ wrapped = "none"
    /\ pc = "idle"
    /\ exc = "none"
    /\ pending = NoOutcome
    /\ saved_repro_after = "unset"
    /\ call_site = "none"
    /\ events = <<>>
    /\ outcome = NoOutcome
    /\ checkpoints = {}
    /\ repro_py = {}
    /\ minifier_launcher = {}

\* The writer's state after a storage() call that ended as r.
AfterStorageCall(r) ==
    /\ storage_counter' = r.counter
    /\ seen_storages' = r.seen
    /\ store' = r.store

\* Mutant of WriterStorage: a missing device hint is replaced by a default
\* instead of being required.
WriterStorageDefaultsHint(s, dtype_hint, device_hint, write_ok) ==
    /\ w_calls < MaxCalls
    /\ loaded = NotLoaded
    /\ LET r == StorageCall(s, dtype_hint,
                            IF device_hint = "None" THEN "cuda" ELSE device_hint,
                            write_ok)
       IN  /\ AfterStorageCall(r)
           /\ w_lines' = r.lines
           /\ line_source' = r.source
           /\ w_result' = IF r.raised = "none" THEN "returned" ELSE r.raised
    /\ w_calls' = w_calls + 1
    /\ UNCHANGED <<storages, store_present, captured>>
    /\ UNCHANGED outside_writer

\* A direct call writer.storage(untyped_storage, dtype_hint=, device_hint=)
WriterStorage(s, dtype_hint, device_hint, write_ok) ==
    /\ w_calls < MaxCalls
    /\ loaded = NotLoaded
    /\ LET r == StorageCall(s, dtype_hint, device_hint, write_ok)
       IN  /\ AfterStorageCall(r)
           /\ w_lines' = r.lines
           /\ line_source' = r.source
           /\ w_result' = IF r.raised = "none" THEN "returned" ELSE r.raised
    /\ w_calls' = w_calls + 1
    /\ UNCHANGED <<storages, store_present, captured>>
    /\ UNCHANGED outside_writer

\* Mutant of WriterTensor: the view's line is emitted before the line of the
\* buffer it refers to.
WriterTensorViewFirst(t, write_ok) ==
    /\ w_calls < MaxCalls
    /\ loaded = NotLoaded
    /\ LET r == StorageCall(t.storage, t.dtype, TensorDevice(t), write_ok)
           fresh == Len(r.lines) > Len(w_lines)
       IN  /\ AfterStorageCall(r)
           /\ IF r.raised = "none"
              THEN /\ w_lines' =
                        IF fresh
                        THEN w_lines \o <<TensorLine(r.name, t),
                                          r.lines[Len(r.lines)]>>
                        ELSE Append(r.lines, TensorLine(r.name, t))
                   /\ line_source' = Append(r.source, t.storage)
                   /\ captured' = Append(captured, [kind |-> "tensor", t |-> t])
                   /\ w_result' = "returned"
              ELSE /\ w_lines' = r.lines
                   /\ line_source' = r.source
                   /\ w_result' = r.raised
                   /\ UNCHANGED captured
    /\ w_calls' = w_calls + 1
    /\ UNCHANGED <<storages, store_present>>
    /\ UNCHANGED outside_writer

\* writer.tensor(name, t): the buffer's line if the buffer is new, then the
\* view's line.
WriterTensor(t, write_ok) ==
    /\ w_calls < MaxCalls
    /\ loaded = NotLoaded
    /\ LET r == StorageCall(t.storage, t.dtype, TensorDevice(t), write_ok)
       IN  /\ AfterStorageCall(r)
           /\ IF r.raised = "none"
              THEN /\ w_lines' = Append(r.lines, TensorLine(r.name, t))
                   /\ line_source' = Append(r.source, t.storage)
                   /\ captured' = Append(captured, [kind |-> "tensor", t |-> t])
                   /\ w_result' = "returned"
              ELSE /\ w_lines' = r.lines
                   /\ line_source' = r.source
                   /\ w_result' = r.raised
                   /\ UNCHANGED captured
    /\ w_calls' = w_calls + 1
    /\ UNCHANGED <<storages, store_present>>
    /\ UNCHANGED outside_writer

\* A plain int, and a torch.SymInt: a symbolic size whose node carries the
\* concrete value it had when the graph was traced (its hint).
PlainInt(v) == [kind |-> "int", val |-> v, hint |-> v]
SymInt(expr, h) == [kind |-> "symint", val |-> expr, hint |-> h]
IntValues == {PlainInt(3)}
SymIntValues == {SymInt("s0", 5)}

\* `if isinstance(val, torch.SymInt): val = val.node.hint`
HintIfSymInt(val) == IF val.kind = "symint" THEN val.hint ELSE val.val


\* writer.symint(name, val): val is the integer, or the hint of the SymInt.
WriterSymint(val) ==
    /\ w_calls < MaxCalls
    /\ loaded = NotLoaded
    /\ w_lines' = Append(w_lines, [op |-> "symint", val |-> HintIfSymInt(val)])
    /\ line_source' = Append(line_source, 0)
    /\ captured' = Append(captured, val)
    /\ w_result' = "returned"
    /\ w_calls' = w_calls + 1
    /\ UNCHANGED <<storages, store_present, store, storage_counter,
                   seen_storages>>
    /\ UNCHANGED outside_writer


\* ------------------------------------------------------------------------
\* InputReader and NopInputReader: replay of a script
\* ------------------------------------------------------------------------
RECURSIVE ExtentFrom(_, _, _)
\* sum over the dimensions j >= i of (shape[j] - 1) * stride[j]
ExtentFrom(shape, stride, i) ==
    IF i > Len(shape) THEN 0
    ELSE (shape[i] - 1) * stride[i] + ExtentFrom(shape, stride, i + 1)

\* Bytes a view needs in its storage; Tensor.set_ refuses a view that needs
\* more than the storage holds.
BytesNeeded(shape, stride, storage_offset, dtype) ==
    (storage_offset + ExtentFrom(shape, stride, 1) + 1) * ItemSize(dtype)
Fits(shape, stride, storage_offset, dtype, nbytes) ==
    BytesNeeded(shape, stride, storage_offset, dtype) <= nbytes

\* Mutant of ReaderStorage: a hash that is on the line is taken to be in
\* the store.
ReaderStorageTrustsHash(l, i, has_store, st) ==
    LET device == DeviceOrDefault(l.device)
        dtype_hint == DtypeOrDefault(l.dtype_hint)
    IN  IF has_store /\ l.hash # "None"
        THEN [obj |-> i, device |-> device,
              content |-> IF l.hash = "hash_a" THEN "a" ELSE "b",
              nbytes |-> l.nbytes, dtype_hint |-> dtype_hint,
              substituted |-> FALSE]
        ELSE [obj |-> i, device |-> device, content |-> "random",
              nbytes |-> (l.nbytes \div ItemSize(dtype_hint)) * ItemSize(dtype_hint),
              dtype_hint |-> dtype_hint,
              substituted |-> TRUE]

\* InputReader.storage(storage_hash, nbytes, device=, dtype_hint=), executed
\* as instruction i of the script: the stored buffer when the reader has a
\* store and the hash is found in it; otherwise a warning and random data of
\* the hinted type on the hinted device, nbytes // itemsize elements long.
\* Every call makes a new storage object.
ReaderStorage(l, i, has_store, st) ==
    LET device == DeviceOrDefault(l.device)
        dtype_hint == DtypeOrDefault(l.dtype_hint)
        found == {e \in st : e.hash = l.hash}
    IN  IF has_store /\ l.hash # "None" /\ found # {}
        THEN LET e == CHOOSE e \in found : TRUE
             IN  [obj |-> i, device |-> e.device, content |-> e.content,
                  nbytes |-> e.nbytes, dtype_hint |-> dtype_hint,
                  substituted |-> FALSE]
        ELSE [obj |-> i, device |-> device, content |-> "random",
              nbytes |-> (l.nbytes \div ItemSize(dtype_hint)) * ItemSize(dtype_hint),
              dtype_hint |-> dtype_hint,
              substituted |-> TRUE]

\* InputReader.tensor(storage, shape, stride=, storage_offset=, dtype=)
ReaderTensor(l, storage) ==
    [kind |-> "tensor",
     storage |-> storage.obj,
     shape |-> l.shape,
     stride |-> StrideOrDefault(l.stride, l.shape),
     storage_offset |-> StorageOffsetOrDefault(l.storage_offset),
     dtype |-> DtypeOrDefault(l.dtype),
     device |-> storage.device,
     content |-> storage.content]

\* Does t.set_(storage, storage_offset, shape, stride) of line l succeed?
ReaderTensorFits(l, storage) ==
    Fits(l.shape, StrideOrDefault(l.stride, l.shape),
         StorageOffsetOrDefault(l.storage_offset), DtypeOrDefault(l.dtype),
         storage.nbytes)

\* A reader before its first instruction
NewReader ==
    [error |-> "none", args |-> <<>>, updates |-> 0, made |-> <<>>]

RECURSIVE ReplayFrom(_, _, _, _, _, _)
\* load_args(reader) from instruction i on: env binds the buffer names the
\* script has assigned so far; r.args is reader.args, r.updates the number of
\* pbar.update(1) calls, r.made the storages the reader has returned.
ReplayFrom(lines, i, env, r, has_store, st) ==
    IF i > Len(lines) THEN r
    ELSE LET l == lines[i]
         IN  IF l.op = "storage"
             THEN LET made == ReaderStorage(l, i, has_store, st)
                  IN  ReplayFrom(lines, i + 1,
                                 [n \in DOMAIN env \cup {l.name} |->
                                     IF n = l.name THEN made ELSE env[n]],
                                 [r EXCEPT !.updates = r.updates + 1,
                                           !.made = Append(r.made, made)],
                                 has_store, st)
             ELSE IF l.op = "tensor"
             THEN IF l.storage \notin DOMAIN env
                  THEN [r EXCEPT !.error = "NameError"]
                  ELSE IF ~ReaderTensorFits(l, env[l.storage])
                  THEN [r EXCEPT !.error = "RuntimeError"]
                  ELSE ReplayFrom(lines, i + 1, env,
                                  [r EXCEPT !.args =
                                      Append(r.args,
                                             ReaderTensor(l, env[l.storage]))],
                                  has_store, st)
             ELSE ReplayFrom(lines, i + 1, env,
                             [r EXCEPT !.args =
                                 Append(r.args,
                                        [kind |-> "int", val |-> l.val])],
                             has_store, st)

Replay(lines, has_store, st) ==
    ReplayFrom(lines, 1, <<>>, NewReader, has_store, st)

RECURSIVE NopReplayFrom(_, _, _, _)
\* load_args(NopInputReader()): storage() counts and returns None, tensor()
\* and symint() do nothing.
NopReplayFrom(lines, i, names, r) ==
    IF i > Len(lines) THEN r
    ELSE LET l == lines[i]
         IN  IF l.op = "storage"
             THEN NopReplayFrom(lines, i + 1, names \cup {l.name},
                                [r EXCEPT !.total = r.total + 1])
             ELSE IF l.op = "tensor" /\ l.storage \notin names
             THEN [r EXCEPT !.error = "NameError"]
             ELSE NopReplayFrom(lines, i + 1, names, r)

NopReplay(lines) ==
    NopReplayFrom(lines, 1, {},
                  [error |-> "none", total |-> 0, args |-> <<>>, made |-> <<>>])

\* ------------------------------------------------------------------------
\* Replaying a generated script
\* ------------------------------------------------------------------------
\* The buffers of a replayed session: two buffers with the same bytes on
\* different devices, a short buffer (content "b" is 20 bytes long), and the
\* meta storage of a FakeTensor.
ReplayStorageKinds ==
    {[device |-> "cpu", tensor_device |-> "cpu", content |-> "a",
      nbytes |-> StorageNBytes],
     [device |-> "cuda", tensor_device |-> "cuda", content |-> "a",
      nbytes |-> StorageNBytes],
     [device |-> "cpu", tensor_device |-> "cpu", content |-> "b",
      nbytes |-> ItemSize("float32") * 5],
     [device |-> "meta", tensor_device |-> "cuda", content |-> "none",
      nbytes |-> StorageNBytes]}

\* The views of a replayed session: the default view, a view at an offset,
\* a transposed float64 view, and a narrow float64 view that also fits the
\* short buffer.
ReplayTensors ==
    {t \in [storage : StorageIds, shape : {<<2, 2>>, <<1, 2>>},
            stride : Strides, storage_offset : Offsets, dtype : Dtypes] :
        \/ /\ t.shape = <<2, 2>> /\ t.dtype = "float32" /\ t.stride = <<2, 1>>
        \/ /\ t.shape = <<2, 2>> /\ t.dtype = "float64" /\ t.stride = <<1, 2>>
           /\ t.storage_offset = 0
        \/ /\ t.shape = <<1, 2>> /\ t.dtype = "float64" /\ t.stride = <<2, 1>>
           /\ t.storage_offset = 0}

\* t is a view of its storage: it lies within the storage's bytes.
IsView(t) ==
    Fits(t.shape, t.stride, t.storage_offset, t.dtype,
         storages[t.storage].nbytes)

ReplayInit ==
    /\ storages \in [StorageIds -> ReplayStorageKinds]
    /\ \A s1, s2 \in StorageIds :
          s1 < s2 => KindRank(storages[s1]) <= KindRank(storages[s2])
    /\ store_present \in BOOLEAN
    /\ store = {}
    /\ w_lines = <<>>
    /\ storage_counter = 0
    /\ seen_storages = <<>>
    /\ w_result = "none"
    /\ w_calls = 0
    /\ line_source = <<>>
    /\ captured = <<>>
    /\ ReaderInit

\* generate_compiler_repro_string, lines 430-437: one captured value per
\* iteration, in argument order.
GenerateSymint(val) == gen = "running" /\ WriterSymint(val)
GenerateTensor(t) == gen = "running" /\ WriterTensor(t, TRUE)

\* Captured values that are neither int / SymInt nor Tensor
UnsupportedArgs == {"float", "NoneType"}

\* Mutant of GenerateUnsupported: the value is skipped.
GenerateUnsupportedSkips(arg) ==
    /\ gen = "running"
    /\ w_calls < MaxCalls
    /\ w_calls' = w_calls + 1
    /\ UNCHANGED <<storages, store_present, store, w_lines, storage_counter,
                   seen_storages, w_result, captured, line_source>>
    /\ UNCHANGED outside_writer

\* The else branch, line 437: raise TypeError
GenerateUnsupported(arg) ==
    /\ gen = "running"
    /\ w_calls < MaxCalls
    /\ gen' = "TypeError"
    /\ UNCHANGED <<outside_reader, nop_total, loaded, load_args_version>>

\* Lines 439-442: the loop is over, the script is returned.  writer.lines()
\* closes load_args with `load_args._version = 0` (line 326).
GenerateReturn ==
    /\ gen = "running"
    /\ gen' = "returned"
    /\ load_args_version' = SomeVersion(0)
    /\ UNCHANGED <<outside_reader, nop_total, loaded>>

\* The instructions of the scripts handed to repro_common: buffers of 20
\* bytes, float32 views of them, scalar ints.
ScriptLines ==
    [op : {"storage"}, name : {0, 1}, hash : {"hash_b"},
     nbytes : {ItemSize("float32") * 5}, device : {"None"},
     dtype_hint : {"None", "float64"}]
    \cup [op : {"tensor"}, storage : {0, 1}, shape : {<<2, 2>>},
          stride : {NoStride}, storage_offset : {NoOffset, SomeOffset(1)},
          dtype : {"None"}]
    \cup [op : {"symint"}, val : {3}]

\* A script as the writer lays it out: a buffer is defined once and before
\* its views, and every view lies within the recorded bytes of its buffer.
WellFormed(lines) ==
    \A i \in DOMAIN lines :
       /\ lines[i].op = "storage" =>
             \A j \in DOMAIN lines :
                (lines[j].op = "storage" /\ lines[j].name = lines[i].name)
                   => j = i
       /\ lines[i].op = "tensor" =>
             \E j \in 1..(i - 1) :
                /\ lines[j].op = "storage"
                /\ lines[j].name = lines[i].storage
                /\ Fits(lines[i].shape,
                        StrideOrDefault(lines[i].stride, lines[i].shape),
                        StorageOffsetOrDefault(lines[i].storage_offset),
                        DtypeOrDefault(lines[i].dtype), lines[j].nbytes)

\* The format versions a script can carry: none (a script that was not
\* written by InputWriter.lines), the version this reader supports, and the
\* versions of later writers.
ScriptVersions == {NoVersion} \cup {SomeVersion(v) : v \in 0..2}

\* run_repro is handed a script and a save_dir whose store holds the
\* script's buffer or nothing.
ScriptInit ==
    /\ load_args_version \in ScriptVersions
    /\ w_lines \in {l \in SeqsUpTo(ScriptLines, MaxLines) : WellFormed(l)}
    /\ store \in {{}, {[hash |-> "hash_b", content |-> "b", device |-> "cpu",
                         nbytes |-> ItemSize("float32") * 5]}}
    /\ storages = [s \in StorageIds |->
                     [device |-> "cpu", tensor_device |-> "cpu",
                      content |-> "b", nbytes |-> ItemSize("float32") * 5]]
    /\ store_present = FALSE
    /\ storage_counter = 0
    /\ seen_storages = <<>>
    /\ w_result = "none"
    /\ w_calls = 0
    /\ line_source = <<>>
    /\ captured = <<>>
    /\ gen = "returned"
    /\ nop_total = 0
    /\ loaded = NotLoaded

\* repro_common, lines 635-647: a warning when load_args has no _version
\* attribute, another when its _version is above 0; nothing is raised.
VersionWarnings(version) ==
    IF ~version.given THEN {"no_version"}
    ELSE IF version.val > 0 THEN {"version_mismatch"}
    ELSE {}

\* Mutant of LoadArgs: a script of a later format version is refused.
LoadArgsRefusesLaterVersion(has_store, intact) ==
    /\ loaded = NotLoaded
    /\ gen = "returned"
    /\ LET nop == NopReplay(w_lines)
           reader_store == IF has_store /\ intact THEN store ELSE {}
           r == Replay(w_lines, has_store, reader_store)
           warnings == VersionWarnings(load_args_version)
       IN  /\ nop_total' = IF "version_mismatch" \in warnings
                           THEN 0 ELSE nop.total
           /\ loaded' =
                 IF "version_mismatch" \in warnings
                 THEN [NotLoaded EXCEPT !.done = TRUE,
                                        !.error = "RuntimeError",
                                        !.has_store = has_store,
                                        !.reader_store = reader_store]
                 ELSE IF nop.error # "none"
                 THEN [NotLoaded EXCEPT !.done = TRUE, !.error = nop.error,
                                        !.has_store = has_store,
                                        !.reader_store = reader_store,
                                        !.warnings = warnings]
                 ELSE [done |-> TRUE, has_store |-> has_store,
                       reader_store |-> reader_store,
                       pbar_total |-> nop.total, error |-> r.error,
                       args |-> r.args, updates |-> r.updates,
                       made |-> r.made, warnings |-> warnings]
    /\ UNCHANGED <<outside_reader, gen, load_args_version>>

\* repro_common, lines 635-655: the version warnings, then load_args runs
\* against a NopInputReader to size the progress bar, then against an
\* InputReader over save_dir.  The reader has a store when save_dir is
\* given; the entries the writer stored are still there (intact) or have
\* been lost since.
LoadArgs(has_store, intact) ==
    /\ loaded = NotLoaded
    /\ gen = "returned"
    /\ LET nop == NopReplay(w_lines)
           reader_store == IF has_store /\ intact THEN store ELSE {}
           r == Replay(w_lines, has_store, reader_store)
           warnings == VersionWarnings(load_args_version)
       IN  /\ nop_total' = nop.total
           /\ loaded' =
                 IF nop.error # "none"
                 THEN [NotLoaded EXCEPT !.done = TRUE, !.error = nop.error,
                                        !.has_store = has_store,
                                        !.reader_store = reader_store,
                                        !.warnings = warnings]
                 ELSE [done |-> TRUE, has_store |-> has_store,
                       reader_store |-> reader_store,
                       pbar_total |-> nop.total, error |-> r.error,
                       args |-> r.args, updates |-> r.updates,
                       made |-> r.made, warnings |-> warnings]
    /\ UNCHANGED <<outside_reader, gen, load_args_version>>

\* ========================================================================
\* Part V: isolate_fails and the minifier-query child
\* ========================================================================
NoChild == [pc |-> "none", fail_fn |-> "none", exit |-> 0, cause |-> "none"]

\* Exit codes of the child: sys.exit(1), sys.exit(0), an exception nobody
\* catches (the interpreter exits with 1), death by a signal (Popen reports
\* the negated signal number).
ExitReproduced == 1
ExitNotReproduced == 0
ExitUncaught == 1
ExitSignal == -11

\* No evaluation is under way and none has been asked for.
IsolateIdle ==
    /\ options_accuracy = FALSE
    /\ iso_pc = "idle"
    /\ child = NoChild
    /\ live_children = 0
    /\ answers = <<>>

IsolateInit ==
    /\ options_accuracy \in BOOLEAN
    /\ iso_pc = "idle"
    /\ child = NoChild
    /\ live_children = 0
    /\ answers = <<>>

\* isolate_fails, lines 524-556: the candidate is written as a script whose
\* command is minifier-query and a child process is started on it.  Writing
\* the script can raise (save_graph_repro); then no child is started and
\* the exception reaches the minifier.
IsolateFailsSpawn(save_ok) ==
    /\ iso_pc = "idle"
    /\ Len(answers) < MaxCandidates
    /\ IF save_ok
       THEN /\ iso_pc' = "wait"
            /\ child' = [NoChild EXCEPT !.pc = "repro_common"]
            /\ live_children' = live_children + 1
            /\ UNCHANGED answers
       ELSE /\ answers' = Append(answers,
                                 [kind |-> "raised", result |-> FALSE,
                                  returncode |-> 0, cause |-> "none",
                                  printed |-> FALSE])
            /\ UNCHANGED <<iso_pc, child, live_children>>
    /\ UNCHANGED options_accuracy
    /\ UNCHANGED outside_isolate

\* The child runs repro_minifier_query, line 667: repro_common asserts on
\* the module, replays load_args and traces the module with make_fx.  Any
\* of these can raise; nothing in the child catches it.
ChildReproCommon(ok) ==
    /\ child.pc = "repro_common"
    /\ child' = IF ok
                THEN [child EXCEPT !.pc = "fail_fn",
                                   !.fail_fn = IF options_accuracy
                                               THEN "inductor_accuracy_fails"
                                               ELSE "inductor_fails"]
                ELSE [child EXCEPT !.pc = "exited", !.exit = ExitUncaught,
                                   !.cause = "tool_error"]
    /\ UNCHANGED <<options_accuracy, iso_pc, live_children, answers>>
    /\ UNCHANGED outside_isolate

\* repro_minifier_query, lines 668-672: the selected predicate answers and
\* the child exits with 1 or 0; or the predicate raises, or the process
\* dies while the compiled graph runs.
ChildFailFn(answer) ==
    /\ child.pc = "fail_fn"
    /\ child' =
         CASE answer = "True" ->
                [child EXCEPT !.pc = "exited", !.exit = ExitReproduced,
                              !.cause = "reproduced"]
           [] answer = "False" ->
                [child EXCEPT !.pc = "exited", !.exit = ExitNotReproduced,
                              !.cause = "not_reproduced"]
           [] answer = "raises" ->
                [child EXCEPT !.pc = "exited", !.exit = ExitUncaught,
                              !.cause = "predicate_error"]
           [] OTHER ->
                [child EXCEPT !.pc = "exited", !.exit = ExitSignal,
                              !.cause = "crash"]
    /\ UNCHANGED <<options_accuracy, iso_pc, live_children, answers>>
    /\ UNCHANGED outside_isolate

\* Mutant of IsolateFailsWait: the return code is read without waiting for
\* the child (poll in place of wait); a child still running is left behind.
IsolateFailsWaitPolls ==
    /\ iso_pc = "wait"
    /\ answers' = Append(answers,
                         [kind |-> "returned",
                          result |-> (child.pc # "exited" \/ child.exit # 0),
                          returncode |-> child.exit,
                          cause |-> child.cause,
                          printed |-> (child.pc # "exited" \/ child.exit # 0)])
    /\ iso_pc' = "idle"
    /\ child' = NoChild
    /\ live_children' = IF child.pc = "exited" THEN live_children - 1
                        ELSE live_children
    /\ UNCHANGED options_accuracy
    /\ UNCHANGED outside_isolate

\* Mutant of IsolateFailsWait: the child's output is printed whatever the
\* return code.
IsolateFailsWaitPrintsAlways ==
    /\ iso_pc = "wait"
    /\ child.pc = "exited"
    /\ answers' = Append(answers,
                         [kind |-> "returned",
                          result |-> (child.exit # 0),
                          returncode |-> child.exit,
                          cause |-> child.cause,
                          printed |-> TRUE])
    /\ iso_pc' = "idle"
    /\ child' = NoChild
    /\ live_children' = live_children - 1
    /\ UNCHANGED options_accuracy
    /\ UNCHANGED outside_isolate

\* Mutant of IsolateFailsWait: the answer is True for exit code 1 only.
IsolateFailsWaitExitOne ==
    /\ iso_pc = "wait"
    /\ child.pc = "exited"
    /\ answers' = Append(answers,
                         [kind |-> "returned",
                          result |-> (child.exit = 1),
                          returncode |-> child.exit,
                          cause |-> child.cause,
                          printed |-> (child.exit = 1)])
    /\ iso_pc' = "idle"
    /\ child' = NoChild
    /\ live_children' = live_children - 1
    /\ UNCHANGED options_accuracy
    /\ UNCHANGED outside_isolate

\* isolate_fails, lines 557-566: p.wait() returns when the child has
\* exited; a non-zero return code prints the child's output and answers
\* True, a zero return code answers False.
IsolateFailsWait ==
    /\ iso_pc = "wait"
    /\ child.pc = "exited"
    /\ answers' = Append(answers,
                         [kind |-> "returned",
                          result |-> (child.exit # 0),
                          returncode |-> child.exit,
                          cause |-> child.cause,
                          printed |-> (child.exit # 0)])
    /\ iso_pc' = "idle"
    /\ child' = NoChild
    /\ live_children' = live_children - 1
    /\ UNCHANGED options_accuracy
    /\ UNCHANGED outside_isolate

\* ========================================================================
\* Part VI: inductor_fails, the in-process failure predicate
\* ========================================================================
\* The argument lists the minifier hands to the predicate: what load_args
\* rebuilt (tensors, and plain ints for the captured SymInts).
PredicateArgLists == SeqsUpTo(RealTensors \cup IntArgs, MaxInputs)

\* reference is what fx_g(*args) did, compiled what compile_fx_inner and the
\* compiled run did, in_repr whether check_str occurs in repr(e).
NoCall == [pc |-> "idle", args |-> <<>>, check_str |-> "None",
           has_cuda |-> FALSE, outcome |-> NoOutcome, printed |-> FALSE,
           reference |-> "none", compiled |-> "none", in_repr |-> FALSE]

PredicateIdle == predicate = NoCall

\* The minifier calls inductor_fails(fx_g, args) or, through the check_str
\* parameter, inductor_fails(fx_g, args, check_str).
PredicateInit ==
    \E a \in PredicateArgLists, c \in {"None", "given"} :
       predicate = [NoCall EXCEPT !.pc = "scan", !.args = a, !.check_str = c]

\* Index of the first argument at which the loop of lines 576-579 stops:
\* the first cuda tensor (break) or the first argument that has no is_cuda
\* attribute (a plain int); 0 if the loop runs to the end.
FirstStop(a) ==
    LET stops == {i \in DOMAIN a : a[i].kind = "int" \/ a[i].is_cuda}
    IN  IF stops = {} THEN 0
        ELSE CHOOSE i \in stops : \A j \in stops : i <= j

\* inductor_fails, lines 575-579: `for arg in args: if arg.is_cuda`.  The
\* loop is outside every try block; reading is_cuda of an int raises
\* AttributeError.
InductorFailsScan ==
    /\ predicate.pc = "scan"
    /\ LET a == predicate.args
           k == FirstStop(a)
       IN  predicate' =
             IF k # 0 /\ a[k].kind = "int"
             THEN [predicate EXCEPT !.pc = "done",
                                    !.outcome = Raised("AttributeError")]
             ELSE [predicate EXCEPT !.pc = "reference", !.has_cuda = (k # 0)]
    /\ UNCHANGED outside_predicate

\* What fx_g(*args) can do: return a flat tuple or list, return a tuple or
\* list with a tuple or list among its items, return something that is
\* neither, or raise.
ReferenceResults == {"flat", "nested", "not_sequence", "raises"}

\* Lines 588-593: the graph is run as it is; an exception of the run, or a
\* result that is not a flat tuple or list (the two asserts), answers False.
InductorFailsReference(result) ==
    /\ predicate.pc = "reference"
    /\ predicate' = IF result = "flat"
                    THEN [predicate EXCEPT !.pc = "sync",
                                           !.reference = result]
                    ELSE [predicate EXCEPT !.pc = "done",
                                           !.reference = result,
                                           !.outcome = Returned(FALSE)]
    /\ UNCHANGED outside_predicate

\* Line 595: sync() between the two try blocks.  With a cuda argument it
\* calls torch.cuda.synchronize(), which raises when a kernel of the run
\* faulted; without one it does nothing.
InductorFailsSync(sync_raises) ==
    /\ predicate.pc = "sync"
    /\ sync_raises => predicate.has_cuda
    /\ predicate' = IF sync_raises
                    THEN [predicate EXCEPT !.pc = "done",
                                           !.outcome = Raised("RuntimeError")]
                    ELSE [predicate EXCEPT !.pc = "compile"]
    /\ UNCHANGED outside_predicate

\* Mutant of InductorFailsCompile: every exception answers True, check_str
\* is not looked at.
InductorFailsCompileAnyException(raises, in_repr) ==
    /\ predicate.pc = "compile"
    /\ in_repr => raises /\ predicate.check_str # "None"
    /\ LET p == [predicate EXCEPT
                    !.pc = "done",
                    !.compiled = IF raises THEN "raised" ELSE "returned",
                    !.in_repr = in_repr]
       IN  predicate' =
             IF ~raises
             THEN [p EXCEPT !.outcome = Returned(FALSE)]
             ELSE [p EXCEPT !.outcome = Returned(TRUE), !.printed = TRUE]
    /\ UNCHANGED outside_predicate

\* Lines 597-606: compile_fx_inner, the compiled run and sync() inside one
\* try block.  An exception answers True and is printed, unless check_str
\* is given and does not occur in repr(e); no exception answers False.
InductorFailsCompile(raises, in_repr) ==
    /\ predicate.pc = "compile"
    /\ in_repr => raises /\ predicate.check_str # "None"
    /\ LET p == [predicate EXCEPT
                    !.pc = "done",
                    !.compiled = IF raises THEN "raised" ELSE "returned",
                    !.in_repr = in_repr]
       IN  predicate' =
             IF ~raises
             THEN [p EXCEPT !.outcome = Returned(FALSE)]
             ELSE IF predicate.check_str # "None" /\ ~in_repr
             THEN [p EXCEPT !.outcome = Returned(FALSE)]
             ELSE [p EXCEPT !.outcome = Returned(TRUE), !.printed = TRUE]
    /\ UNCHANGED outside_predicate

\* ========================================================================
\* Part VII: repro_analyze
\* ========================================================================
\* The graph under analysis: a chain of three nodes, in emission order.
AnalyzeNodes == <<"A", "B", "C">>
NodeNames == {AnalyzeNodes[i] : i \in DOMAIN AnalyzeNodes}

\* compute_tensor_metadata of an intermediate: a tuple of its structural
\* attributes (here dtype and shape).  Two shapes a node's output can have.
Meta(dtype, shape) == <<dtype, shape>>
Shapes2 == {<<2, 2>>, <<4>>}

\* An intermediate value: its metadata and its content up to tolerance
\* (two contents are within tolerance exactly when they are equal here).
Value(dtype, shape, content) ==
    [meta |-> Meta(dtype, shape), content |-> content]

\* What the original graph computes at every node.
OriginalValue == Value("float32", <<2, 2>>, "x")
\* What a compiled run and a float64 run can compute at a node: the
\* original's content or another one.
InductorValues == {Value("float32", <<2, 2>>, c) : c \in {"x", "y"}}
Float64Values == {Value("float64", <<2, 2>>, c) : c \in {"x", "y"}}
\* The metadata a second run can produce
InductorMetas == {Meta("float32", sh) : sh \in Shapes2}
Float64Metas == {Meta("float64", sh) : sh \in Shapes2}

\* ContentStoreWriter.write_tensor / ContentStoreReader over save_dir: one
\* entry per name (os.path.join(subdir, name)); a later write of a name
\* replaces the entry; reading a name that has no entry raises.
Key(subdir, name) == <<subdir, name>>
HasTrace(tr, subdir, name) == \E e \in tr : e.key = Key(subdir, name)
ReadTensor(tr, subdir, name) ==
    (CHOOSE e \in tr : e.key = Key(subdir, name)).val
ReadTensorMetadata(tr, subdir, name) == ReadTensor(tr, subdir, name).meta
WriteTensor(tr, subdir, name, val) ==
    {e \in tr : e.key # Key(subdir, name)}
      \cup {[key |-> Key(subdir, name), val |-> val]}

RECURSIVE WriteTensorsFrom(_, _, _, _, _)
\* write_tensor for every node of the chain from position i on whose name
\* is in names, in emission order
WriteTensorsFrom(i, tr, subdir, names, vals) ==
    IF i > Len(AnalyzeNodes) THEN tr
    ELSE LET n == AnalyzeNodes[i]
         IN  WriteTensorsFrom(i + 1,
                              IF n \in names
                              THEN WriteTensor(tr, subdir, n, vals[n])
                              ELSE tr,
                              subdir, names, vals)

\* What an earlier analysis of the same graph left in save_dir
EarlierTraces ==
    WriteTensorsFrom(1,
        WriteTensorsFrom(1, {}, "inductor", NodeNames,
                         [n \in NodeNames |-> Value("float32", <<2, 2>>, "x")]),
        "float64", NodeNames,
        [n \in NodeNames |-> Value("float64", <<2, 2>>, "x")])

AnalyzeOptions ==
    [skip_saving_inductor_intermediates : BOOLEAN,
     skip_saving_float64_intermediates : BOOLEAN,
     skip_check_deterministic : BOOLEAN]

NoAnalysis ==
    [pc |-> "idle",
     options |-> [skip_saving_inductor_intermediates |-> FALSE,
                  skip_saving_float64_intermediates |-> FALSE,
                  skip_check_deterministic |-> FALSE],
     hooked |-> {}, known_names |-> {}, report |-> <<>>, error |-> "none",
     passes |-> <<>>, reads |-> {}]

AnalyzeIdle == traces = {} /\ analysis = NoAnalysis

\* repro_analyze, lines 706-733: the graph is compiled with intermediate
\* hooks (hooked: the intermediates inductor calls the hook for); save_dir
\* is empty or holds the traces of an earlier analysis.
AnalyzeInit ==
    /\ traces \in {{}, EarlierTraces}
    /\ \E o \in AnalyzeOptions, h \in SUBSET NodeNames :
          analysis = [NoAnalysis EXCEPT !.pc = "save_inductor",
                                        !.options = o, !.hooked = h]

\* Mutant of CompareTuples: only the first components are compared.
CompareTuplesFirstOnly(tuple1, tuple2) ==
    IF tuple1[1] # tuple2[1] THEN {1} ELSE {}

\* compare_tuples, lines 742-749: the indices at which the tuples differ;
\* the reason is None exactly when there is none.
CompareTuples(tuple1, tuple2) ==
    {i \in DOMAIN tuple1 : tuple1[i] # tuple2[i]}

\* Mutant of AssertConsumed: the list is not looked at.
AssertConsumedIgnored(a, pass, next, cleared) ==
    [a EXCEPT !.passes = Append(a.passes, [pass |-> pass, empty |-> cleared]),
              !.pc = next]

\* The end of a pass: `assert not new_args` on the list the pass was fed.
\* cleared tells whether the callable emptied the list it was handed.
AssertConsumed(a, pass, next, cleared) ==
    LET b == [a EXCEPT !.passes = Append(a.passes,
                                         [pass |-> pass, empty |-> cleared])]
    IN  IF cleared THEN [b EXCEPT !.pc = next]
        ELSE [b EXCEPT !.pc = "aborted", !.error = "AssertionError"]

\* A pass that a store read ended: the exception leaves repro_analyze.
Aborted(a) == [a EXCEPT !.pc = "aborted"]

\* Lines 735-740: the first compiled run under save_hook (lines 724-728).
\* Every hooked name is added to known_names; its value is written under
\* inductor/<name> unless options.skip_saving_inductor_intermediates.
SaveInductorIntermediates(vals, cleared) ==
    /\ analysis.pc = "save_inductor"
    /\ traces' = IF analysis.options.skip_saving_inductor_intermediates
                 THEN traces
                 ELSE WriteTensorsFrom(1, traces, "inductor",
                                       analysis.hooked, vals)
    /\ analysis' =
         AssertConsumed([analysis EXCEPT !.known_names = analysis.hooked],
                        "save_inductor", "check_inductor", cleared)
    /\ UNCHANGED outside_analyze

RECURSIVE CompareStoredFrom(_, _, _, _, _, _, _)
\* One metadata comparison per node of the chain from position i on whose
\* name is in names: the metadata of this run against read_tensor_metadata
\* of <subdir>/<name>; a difference is written out as msg at that name.
CompareStoredFrom(i, a, tr, subdir, names, metas, msg) ==
    IF i > Len(AnalyzeNodes) THEN a
    ELSE LET n == AnalyzeNodes[i]
             b == [a EXCEPT !.reads = a.reads \cup
                               {[pass |-> a.pc, op |-> "read_tensor_metadata"]}]
         IN  IF n \notin names
             THEN CompareStoredFrom(i + 1, a, tr, subdir, names, metas, msg)
             ELSE IF ~HasTrace(tr, subdir, n)
             THEN [b EXCEPT !.error = "FileNotFoundError"]
             ELSE CompareStoredFrom(
                      i + 1,
                      IF CompareTuples(metas[n],
                                       ReadTensorMetadata(tr, subdir, n)) # {}
                      THEN [b EXCEPT !.report =
                               Append(b.report, [kind |-> msg, name |-> n])]
                      ELSE b,
                      tr, subdir, names, metas, msg)

\* Lines 759-765: unless options.skip_check_deterministic, the second
\* compiled run under check_hook (lines 751-757).
CheckInductorDeterminism(metas, cleared) ==
    /\ analysis.pc = "check_inductor"
    /\ analysis' =
         IF analysis.options.skip_check_deterministic
         THEN [analysis EXCEPT !.pc = "save_float64"]
         ELSE LET a == CompareStoredFrom(1, analysis, traces, "inductor",
                                         analysis.hooked, metas,
                                         "NONDETERMINISTIC INDUCTOR")
              IN  IF a.error # "none" THEN Aborted(a)
                  ELSE AssertConsumed(a, "check_inductor", "save_float64",
                                      cleared)
    /\ UNCHANGED traces
    /\ UNCHANGED outside_analyze

\* Lines 782-786: unless options.skip_saving_float64_intermediates, the
\* graph cast to float64 is interpreted by WriterInterp (lines 767-778),
\* which writes float64/<name> for every node whose name is known.
SaveFloat64Intermediates(vals, cleared) ==
    /\ analysis.pc = "save_float64"
    /\ IF analysis.options.skip_saving_float64_intermediates
       THEN /\ traces' = traces
            /\ analysis' = [analysis EXCEPT !.pc = "check_float64"]
       ELSE /\ traces' = WriteTensorsFrom(1, traces, "float64",
                                          analysis.known_names, vals)
            /\ analysis' = AssertConsumed(analysis, "save_float64",
                                          "check_float64", cleared)
    /\ UNCHANGED outside_analyze

\* Lines 803-807: unless options.skip_check_deterministic, a second float64
\* run by ExactReaderInterp (lines 788-799).
CheckFloat64Determinism(metas, cleared) ==
    /\ analysis.pc = "check_float64"
    /\ analysis' =
         IF analysis.options.skip_check_deterministic
         THEN [analysis EXCEPT !.pc = "check_divergence"]
         ELSE LET a == CompareStoredFrom(1, analysis, traces, "float64",
                                         analysis.known_names, metas,
                                         "NONDETERMINISTIC FLOAT64")
              IN  IF a.error # "none" THEN Aborted(a)
                  ELSE AssertConsumed(a, "check_float64",
                                      "check_divergence", cleared)
    /\ UNCHANGED traces
    /\ UNCHANGED outside_analyze

\* same(r, inductor, float64, tol=..., equal_nan=True, log_error=...): the
\* original value agrees within tolerance with both stored values; when it
\* does not, log_error is called with the comparison that failed.
Same(r, inductor, float64) ==
    r.content = inductor.content /\ r.content = float64.content

RECURSIVE ReaderInterpFromStopsAtFirst(_, _, _)
\* Mutant of ReaderInterpFrom: the traversal compares nothing more once it
\* has reported a divergence.
ReaderInterpFromStopsAtFirst(i, a, tr) ==
    IF i > Len(AnalyzeNodes) THEN a
    ELSE LET n == AnalyzeNodes[i]
         IN  IF n \notin a.known_names
             THEN ReaderInterpFromStopsAtFirst(i + 1, a, tr)
             ELSE IF ~HasTrace(tr, "inductor", n) \/ ~HasTrace(tr, "float64", n)
             THEN [a EXCEPT !.error = "FileNotFoundError"]
             ELSE IF ~Same(OriginalValue, ReadTensor(tr, "inductor", n),
                           ReadTensor(tr, "float64", n))
             THEN [a EXCEPT !.report =
                      Append(a.report, [kind |-> "DIVERGED", name |-> n])]
             ELSE ReaderInterpFromStopsAtFirst(i + 1, a, tr)

RECURSIVE ReaderInterpFrom(_, _, _)
\* ReaderInterp.run_node, lines 811-835, for the nodes of the chain from
\* position i on: a node whose name is known reads inductor/<name>, then
\* float64/<name>, and a failed comparison is written out as DIVERGED.
ReaderInterpFrom(i, a, tr) ==
    IF i > Len(AnalyzeNodes) THEN a
    ELSE LET n == AnalyzeNodes[i]
             b == [a EXCEPT !.reads = a.reads \cup
                               {[pass |-> a.pc, op |-> "read_tensor"]}]
         IN  IF n \notin a.known_names THEN ReaderInterpFrom(i + 1, a, tr)
             ELSE IF ~HasTrace(tr, "inductor", n) \/ ~HasTrace(tr, "float64", n)
             THEN [b EXCEPT !.error = "FileNotFoundError"]
             ELSE ReaderInterpFrom(
                      i + 1,
                      IF ~Same(OriginalValue, ReadTensor(tr, "inductor", n),
                               ReadTensor(tr, "float64", n))
                      THEN [b EXCEPT !.report =
                               Append(b.report,
                                      [kind |-> "DIVERGED", name |-> n])]
                      ELSE b,
                      tr)

\* Lines 837-839: the original graph is interpreted by ReaderInterp over
\* args itself, then `assert not args`.
CheckDivergence(cleared) ==
    /\ analysis.pc = "check_divergence"
    /\ analysis' =
         LET a == ReaderInterpFrom(1, analysis, traces)
         IN  IF a.error # "none" THEN Aborted(a)
             ELSE AssertConsumed(a, "check_divergence", "done", cleared)
    /\ UNCHANGED traces
    /\ UNCHANGED outside_analyze

\* ========================================================================
\* Properties of the writer (specification WriterSpec)
\* ========================================================================
StorageLines == {i \in DOMAIN w_lines : w_lines[i].op = "storage"}
TensorLines == {i \in DOMAIN w_lines : w_lines[i].op = "tensor"}
\* Position in reader.args of the value line i materializes
ArgIndex(i) == Cardinality({j \in 1..i : w_lines[j].op # "storage"})

DefinedBeforeUse ==
    /\ \A i, j \in StorageLines : w_lines[i].name = w_lines[j].name => i = j
    /\ \A i \in TensorLines :
          \E j \in StorageLines : j < i /\ w_lines[j].name = w_lines[i].storage

\* Number of reader.storage lines among the first i lines
StorageRank(i) == Cardinality({j \in StorageLines : j <= i})

\* C10 (as claimed): single-assignment order, and the k-th reader.storage
\* line of the script defines buf(k-1).
C10_OrderAndContiguousNames ==
    /\ DefinedBeforeUse
    /\ \A i \in StorageLines : w_lines[i].name = StorageRank(i) - 1

\* C10 (amended): single-assignment order; names are taken from the
\* session's counter in first-seen order, so they increase along the script
\* and stay below the counter; they are buf0, buf1, ... without gaps when
\* no storage call has raised, while a call that raises (device-hint
\* assertion, content-store write) has used up a number without a line.
C10_OrderAndIncreasingNames ==
    /\ DefinedBeforeUse
    /\ \A i, j \in StorageLines : i < j => w_lines[i].name < w_lines[j].name
    /\ \A i \in StorageLines :
          /\ w_lines[i].name >= StorageRank(i) - 1
          /\ w_lines[i].name < storage_counter
    /\ storage_counter >= Cardinality(StorageLines)
    /\ storage_counter = Cardinality(StorageLines)
          => \A i \in StorageLines : w_lines[i].name = StorageRank(i) - 1
    /\ (w_result \in {"AssertionError", "WriteError"})
          => storage_counter > Cardinality(StorageLines)

C10_Witness ==
    /\ Len(w_lines) = 2
    /\ w_lines[1].op = "storage"
    /\ w_lines[1].name = 1
    /\ w_lines[2].op = "tensor"
    /\ w_lines[2].storage = 1
    /\ storage_counter = 2

\* The line a call has just appended for a new buffer
NewStorageLine == w_lines'[Len(w_lines) + 1]

\* The tensor a step hands to tensor(): the one it appends to captured
CapturedTensor ==
    IF Len(captured') = Len(captured) + 1
         /\ captured'[Len(captured')].kind = "tensor"
    THEN {captured'[Len(captured')].t}
    ELSE {}

\* C13: a call that meets a meta buffer for the first time never writes to
\* the content store; without a device hint it fails an assertion and emits
\* nothing; with one (tensor() always gives the tensor's device) it emits a
\* line whose hash is None and whose device is the hinted device.
C13_PlaceholderBuffers ==
    [][\A s \in StorageIds :
          (storages[s].device = "meta" /\ s \notin DOMAIN seen_storages) =>
             /\ \A dtype_hint \in {"None", "float64"},
                   device_hint \in {"None", "cuda"}, write_ok \in BOOLEAN :
                   (captured' = captured
                      /\ WriterStorage(s, dtype_hint, device_hint, write_ok)) =>
                      /\ store' = store
                      /\ IF device_hint = "None"
                         THEN /\ w_result' = "AssertionError"
                              /\ w_lines' = w_lines
                              /\ s \notin DOMAIN seen_storages'
                         ELSE /\ w_result' = "returned"
                              /\ Len(w_lines') = Len(w_lines) + 1
                              /\ NewStorageLine.op = "storage"
                              /\ NewStorageLine.hash = "None"
                              /\ DeviceOrDefault(NewStorageLine.device)
                                    = device_hint
             /\ \A t \in CapturedTensor, write_ok \in BOOLEAN :
                   (t.storage = s /\ WriterTensor(t, write_ok)) =>
                      /\ store' = store
                      /\ w_result' = "returned"
                      /\ Len(w_lines') = Len(w_lines) + 2
                      /\ NewStorageLine.op = "storage"
                      /\ NewStorageLine.hash = "None"
                      /\ DeviceOrDefault(NewStorageLine.device)
                            = TensorDevice(t)
      ]_vars

C13_Witness ==
    /\ store_present
    /\ w_result = "AssertionError"
    /\ \E i \in StorageLines :
          /\ storages[line_source[i]].device = "meta"
          /\ w_lines[i].hash = "None"
          /\ w_lines[i].device = "cuda"

\* C14: when the content store refuses the write of a new buffer, the call
\* still returns and still emits the buffer's line, with the hash omitted.
C14_WriteFailureNonFatal ==
    [][\A s \in StorageIds :
          (store_present /\ storages[s].device # "meta"
             /\ s \notin DOMAIN seen_storages) =>
             /\ \A dtype_hint \in {"None", "float64"},
                   device_hint \in {"None", "cuda"} :
                   WriterStorage(s, dtype_hint, device_hint, FALSE) =>
                      /\ w_result' = "returned"
                      /\ Len(w_lines') = Len(w_lines) + 1
                      /\ NewStorageLine.op = "storage"
                      /\ NewStorageLine.hash = "None"
             /\ \A t \in Tensors :
                   (t.storage = s /\ WriterTensor(t, FALSE)) =>
                      /\ w_result' = "returned"
                      /\ Len(w_lines') = Len(w_lines) + 2
                      /\ NewStorageLine.op = "storage"
                      /\ NewStorageLine.hash = "None"
      ]_vars

\* ========================================================================
\* Properties of the replay (specification ReplaySpec)
\* ========================================================================
\* The value the k-th captured value should be replayed as, content aside
Original(k) ==
    LET c == captured[k]
    IN  IF c.kind # "tensor" THEN [kind |-> "int", val |-> HintIfSymInt(c)]
        ELSE [kind |-> "tensor", shape |-> c.t.shape, stride |-> c.t.stride,
              storage_offset |-> c.t.storage_offset, dtype |-> c.t.dtype,
              device |-> storages[c.t.storage].tensor_device]

\* The replayed value k agrees with the captured value k in shape, stride,
\* dtype and device (a scalar int: in value).
Faithful(k) ==
    LET o == Original(k)
        v == loaded.args[k]
    IN  /\ v.kind = o.kind
        /\ IF o.kind = "int" THEN v.val = o.val
           ELSE /\ v.shape = o.shape
                /\ v.stride = o.stride
                /\ v.dtype = o.dtype
                /\ v.device = o.device

\* The reader of this replay finds the bytes of buffer s in its store.
Found(s) ==
    /\ loaded.has_store
    /\ \E i \in DOMAIN w_lines :
          /\ w_lines[i].op = "storage"
          /\ line_source[i] = s
          /\ \E m \in DOMAIN loaded.made :
                loaded.made[m].obj = i /\ ~loaded.made[m].substituted

\* C11: replaying the script of a generated repro reconstructs every
\* captured value: no error, one value per captured value, each equal to the
\* original in shape, stride, dtype and device, and with the original bytes
\* when the reader found the buffer in its store.
C11_RoundTrip ==
    loaded.done =>
        /\ loaded.error = "none"
        /\ Len(loaded.args) = Len(captured)
        /\ \A k \in DOMAIN captured :
              /\ Faithful(k)
              /\ (captured[k].kind = "tensor" /\ Found(captured[k].t.storage))
                    => loaded.args[k].content
                         = storages[captured[k].t.storage].content

\* The device InputWriter.storage records for buffer s: the buffer's own, or
\* the device of its tensors when the buffer is a meta storage.
RecordedDevice(s) ==
    IF storages[s].device = "meta" THEN storages[s].tensor_device
    ELSE storages[s].device

\* The writer's half of C12: a field is on the line exactly when the
\* attribute differs from its default, and then it is the attribute.
OmitsExactlyDefaults ==
    /\ \A i \in TensorLines :
          LET l == w_lines[i]
              t == captured[ArgIndex(i)].t
          IN  /\ l.shape = t.shape
              /\ l.stride.given <=> t.stride # MakeContiguousStridesFor(t.shape)
              /\ l.stride.given => l.stride.val = t.stride
              /\ l.storage_offset.given <=> t.storage_offset # 0
              /\ l.storage_offset.given => l.storage_offset.val = t.storage_offset
              /\ l.dtype # "None" <=> t.dtype # "float32"
              /\ l.dtype # "None" => l.dtype = t.dtype
    /\ \A i \in StorageLines :
          LET l == w_lines[i]
              d == RecordedDevice(line_source[i])
              \* the view whose capture emitted the line: its dtype is the hint
              t == captured[ArgIndex(i + 1)].t
          IN  /\ l.device # "None" <=> d # "cpu"
              /\ l.device # "None" => l.device = d
              /\ l.dtype_hint # "None" <=> t.dtype # "float32"
              /\ l.dtype_hint # "None" => l.dtype_hint = t.dtype

\* The reader's half of C12: a field that is not on the line is replayed as
\* the default.
OmittedReadsAsDefault ==
    (loaded.done /\ loaded.error = "none") =>
        /\ \A i \in TensorLines :
              LET l == w_lines[i]
                  v == loaded.args[ArgIndex(i)]
              IN  /\ ~l.stride.given
                        => v.stride = MakeContiguousStridesFor(l.shape)
                  /\ ~l.storage_offset.given => v.storage_offset = 0
                  /\ l.dtype = "None" => v.dtype = "float32"
        /\ \A m \in DOMAIN loaded.made :
              LET l == w_lines[loaded.made[m].obj]
              IN  /\ l.device = "None" => loaded.made[m].device = "cpu"
                  /\ l.dtype_hint = "None"
                        => loaded.made[m].dtype_hint = "float32"

\* C12: the writer puts a stride, dtype, device or storage-offset field on
\* a line exactly when the attribute differs from its default (row-major
\* stride, float32, cpu, 0), and the reader replays an omitted field as that
\* default.
C12_DefaultOmission == OmitsExactlyDefaults /\ OmittedReadsAsDefault

\* Number of reader.storage lines the replay has executed: all of them, or
\* those before the reader.tensor line that raised.
StorageLinesRun ==
    IF loaded.error = "none" THEN Cardinality(StorageLines)
    ELSE Cardinality({i \in StorageLines :
                        i <= loaded.made[Len(loaded.made)].obj})

\* C15: InputReader.storage never raises; it returns the stored buffer
\* exactly when the reader has a store, the line has a hash and the store
\* holds that hash, and otherwise substitutes (and logs) synthetic data with
\* the recorded or default dtype hint and device.
C15_ContentMissRecoverable ==
    loaded.done =>
        /\ loaded.error \in {"none", "RuntimeError"}
        /\ loaded.error # "none" => loaded.made # <<>>
        /\ Len(loaded.made) = StorageLinesRun
        /\ \A m \in DOMAIN loaded.made :
              LET b == loaded.made[m]
                  l == w_lines[b.obj]
                  entries == {e \in loaded.reader_store : e.hash = l.hash}
              IN  /\ l.op = "storage"
                  /\ b.substituted <=>
                        ~(loaded.has_store /\ l.hash # "None" /\ entries # {})
                  /\ b.substituted =>
                        /\ b.content = "random"
                        /\ b.device = DeviceOrDefault(l.device)
                        /\ b.dtype_hint = DtypeOrDefault(l.dtype_hint)
                  /\ ~b.substituted =>
                        \E e \in entries : b.content = e.content

C15_Witness ==
    /\ loaded.done
    /\ loaded.has_store
    /\ loaded.reader_store = {}
    /\ \E m \in DOMAIN loaded.made :
          /\ w_lines[loaded.made[m].obj].hash # "None"
          /\ loaded.made[m].substituted
          /\ loaded.made[m].device = "cuda"

\* C16: a captured value that is neither a scalar int nor a tensor ends
\* script generation with TypeError: nothing is appended for it, generation
\* never resumes, and no script is returned (so none is ever replayed).
C16_UnsupportedValueIsFatal ==
    /\ [][\A arg \in UnsupportedArgs :
             GenerateUnsupported(arg) =>
                (gen' = "TypeError" /\ w_lines' = w_lines
                   /\ captured' = captured)]_vars
    /\ [][gen = "TypeError" =>
             (gen' = "TypeError" /\ w_lines' = w_lines /\ ~loaded'.done)]_vars

C16_Witness ==
    /\ gen = "TypeError"
    /\ w_lines # <<>>
    /\ w_calls < MaxCalls

\* C17: the counting pass allocates nothing and collects nothing, and its
\* total is the number of reader.storage lines of the script, which is the
\* number of progress updates of the InputReader pass over the same script.
C17_CountingReader ==
    loaded.done =>
        /\ NopReplay(w_lines).args = <<>>
        /\ NopReplay(w_lines).made = <<>>
        /\ nop_total = Cardinality(StorageLines)
        /\ loaded.pbar_total = nop_total
        /\ loaded.updates = nop_total

\* The k-th replayed value is the k-th captured value: a tensor with its
\* shape, stride, offset and dtype, or the int (the hint of a SymInt).
SameValue(k) ==
    LET c == captured[k]
        v == loaded.args[k]
    IN  IF c.kind = "tensor"
        THEN /\ v.kind = "tensor"
             /\ v.shape = c.t.shape
             /\ v.stride = c.t.stride
             /\ v.storage_offset = c.t.storage_offset
             /\ v.dtype = c.t.dtype
        ELSE v = [kind |-> "int", val |-> c.hint]

\* C30: after the replay of a generated script reader.args holds one entry
\* per captured value, in capture order; reader.storage lines add none, and
\* a SymInt comes back as the int that is its hint.
C30_CaptureOrder ==
    loaded.done =>
        /\ Len(loaded.args) = Len(captured)
        /\ \A k \in DOMAIN captured : SameValue(k)

C35_SyntheticBufferSize ==
    loaded.done =>
        /\ \A k \in DOMAIN loaded.made :
              loaded.made[k].substituted =>
                 loaded.made[k].nbytes = w_lines[loaded.made[k].obj].nbytes
        /\ loaded.error # "RuntimeError"

\* ========================================================================
\* Properties of the isolated predicate (specification IsolateSpec)
\* ========================================================================
\* C18: the minifier-query child exits with 1 exactly when the selected
\* predicate has answered that the failure reproduces, and with 0 exactly
\* when it has answered that it does not.
C18_ChildExitCode ==
    child.pc = "exited" =>
        /\ child.exit = 1 <=> child.cause = "reproduced"
        /\ child.exit = 0 <=> child.cause = "not_reproduced"

\* C19: isolate_fails returns True exactly when its child exited with a
\* non-zero code and False exactly when it exited with 0.
C19_ParentReadsExitCode ==
    \A k \in DOMAIN answers :
       answers[k].kind = "returned" =>
          /\ answers[k].result \in BOOLEAN
          /\ answers[k].result <=> answers[k].returncode # 0

C19_Witness ==
    \E j, k \in DOMAIN answers :
       /\ answers[j].kind = "returned" /\ answers[j].result
       /\ answers[j].returncode \notin {0, 1}
       /\ answers[k].kind = "returned" /\ ~answers[k].result
       /\ answers[k].returncode = 0

\* C20: isolate_fails answers True only when the graph's own failure
\* reproduced in the child (the predicate said so, or the process died
\* running the graph), never for an error of the tool itself.
C20_ToolErrorNotReproduced ==
    \A k \in DOMAIN answers :
       (answers[k].kind = "returned" /\ answers[k].result)
          => answers[k].cause \in {"reproduced", "crash"}

\* C22: evaluations are sequential.  At most one child of the driver is
\* alive at any time and none while isolate_fails is not running; a call
\* starts one child, from a state with none alive; it returns only from a
\* state in which its child has exited, leaving none alive; and every call
\* adds one answer to the answers given so far, which are never revised.
C22_SequentialEvaluations ==
    /\ [](/\ live_children \in {0, 1}
          /\ iso_pc = "idle" => live_children = 0
          /\ iso_pc = "wait" => live_children = 1)
    /\ [][/\ live_children' > live_children =>
               (live_children = 0 /\ live_children' = 1 /\ iso_pc' = "wait")
          /\ answers' # answers =>
               /\ Len(answers') = Len(answers) + 1
               /\ SubSeq(answers', 1, Len(answers)) = answers
               /\ live_children' = 0
               /\ answers'[Len(answers')].kind = "returned" =>
                     (child.pc = "exited" /\ live_children = 1)
         ]_vars

C22_Witness ==
    /\ Len(answers) >= 2
    /\ \A k \in DOMAIN answers : answers[k].kind = "returned"
    /\ iso_pc = "wait" /\ live_children = 1 /\ child.pc = "fail_fn"

\* C29: isolate_fails prints the output it captured from the child exactly
\* when the child's return code is not 0; a call that ends before a child
\* ran prints nothing of a child.
C29_OutputOnlyOnNonZeroExit ==
    \A k \in DOMAIN answers :
       /\ answers[k].kind = "returned" =>
             (answers[k].printed <=> answers[k].returncode # 0)
       /\ answers[k].kind = "raised" => ~answers[k].printed

C29_Witness ==
    \E j, k \in DOMAIN answers :
       /\ answers[j].kind = "returned" /\ answers[j].returncode = 1
       /\ answers[j].printed
       /\ answers[k].kind = "returned" /\ answers[k].returncode = 0
       /\ ~answers[k].printed

\* ========================================================================
\* Properties of the in-process predicate (specification PredicateSpec)
\* ========================================================================
\* C21: a call of inductor_fails always ends by returning a boolean; no
\* exception leaves it, whatever mix of tensors and ints it is given.
C21_PredicateNeverRaises ==
    predicate.pc = "done" =>
        /\ predicate.outcome.kind = "return"
        /\ predicate.outcome.what \in BOOLEAN

\* The exception of the compile or of the compiled run is the one asked
\* for: no check_str was given, or check_str occurs in its repr.
Matches ==
    /\ predicate.compiled = "raised"
    /\ predicate.check_str = "None" \/ predicate.in_repr

\* C33: inductor_fails returns False when the run of the original graph
\* raised or did not return a flat tuple or list; when that run was fine it
\* returns True exactly when the compile or the compiled run raised an
\* exception whose repr contains check_str (or no check_str was given), and
\* False when both succeeded or the exception does not match.
C33_PredicateResult ==
    predicate.pc = "done" =>
        /\ predicate.reference \in ReferenceResults \ {"flat"}
              => predicate.outcome = Returned(FALSE)
        /\ predicate.reference \in {"flat", "none"}
              => (predicate.outcome = Returned(TRUE) <=> Matches)
        /\ predicate.compiled # "none" /\ ~Matches
              => predicate.outcome = Returned(FALSE)
        /\ predicate.compiled # "none" => predicate.reference = "flat"

C33_Witness ==
    /\ predicate.pc = "done"
    /\ predicate.reference = "flat"
    /\ predicate.compiled = "raised"
    /\ predicate.check_str = "given"
    /\ ~predicate.in_repr
    /\ predicate.outcome = Returned(FALSE)

\* ========================================================================
\* Properties of the analyzer (specification AnalyzeSpec)
\* ========================================================================
\* What a step adds to the report
NewReport == SubSeq(analysis'.report, Len(analysis.report) + 1,
                    Len(analysis'.report))
NewReads == analysis'.reads \ analysis.reads
Reported(rep, kind, n) ==
    \E i \in DOMAIN rep : rep[i] = [kind |-> kind, name |-> n]
Position(n) == CHOOSE i \in DOMAIN AnalyzeNodes : AnalyzeNodes[i] = n

\* C23: in the second compiled run, with the first run's metadata of every
\* hooked intermediate in the store, nondeterminism is reported at exactly
\* the intermediates whose metadata differ from the stored metadata; the
\* pass reads metadata only, and reports nothing as a divergence.
C23_DeterminismDetection ==
    [][\A metas \in [analysis.hooked -> InductorMetas], cleared \in BOOLEAN :
          (/\ CheckInductorDeterminism(metas, cleared)
           /\ ~analysis.options.skip_check_deterministic
           /\ \A n \in analysis.hooked : HasTrace(traces, "inductor", n))
          =>
          /\ \A n \in analysis.hooked :
                Reported(NewReport, "NONDETERMINISTIC INDUCTOR", n)
                   <=> metas[n] # ReadTensorMetadata(traces, "inductor", n)
          /\ \A i \in DOMAIN NewReport :
                /\ NewReport[i].kind = "NONDETERMINISTIC INDUCTOR"
                /\ NewReport[i].name \in analysis.hooked
          /\ \A r \in NewReads : r.op = "read_tensor_metadata"
      ]_vars

\* The first run stored its intermediates; the second run's output at B,
\* and only at B, came out with another shape and was reported.
C23_Witness ==
    /\ analysis.pc = "save_float64"
    /\ analysis.hooked = NodeNames
    /\ ~analysis.options.skip_saving_inductor_intermediates
    /\ Len(analysis.passes) = 2
    /\ analysis.report = <<[kind |-> "NONDETERMINISTIC INDUCTOR", name |-> "B"]>>

\* C24: the traversal of the original graph reports a divergence at a
\* hooked node (one with a compiled and a reference trace) exactly when the
\* original value there differs beyond tolerance from the compiled or from
\* the reference trace, and reports in emission order; so the first node it
\* reports is the earliest node that diverges.
C24_DivergenceLocalization ==
    [][\A cleared \in BOOLEAN :
          CheckDivergence(cleared) =>
             /\ \A n \in analysis.known_names :
                   (HasTrace(traces, "inductor", n)
                      /\ HasTrace(traces, "float64", n))
                   => (Reported(NewReport, "DIVERGED", n)
                         <=> \/ OriginalValue.content
                                  # ReadTensor(traces, "inductor", n).content
                             \/ OriginalValue.content
                                  # ReadTensor(traces, "float64", n).content)
             /\ \A i \in DOMAIN NewReport :
                   /\ NewReport[i].kind = "DIVERGED"
                   /\ NewReport[i].name \in analysis.known_names
                   /\ HasTrace(traces, "inductor", NewReport[i].name)
                   /\ HasTrace(traces, "float64", NewReport[i].name)
             /\ \A i, j \in DOMAIN NewReport :
                   i < j => Position(NewReport[i].name)
                               < Position(NewReport[j].name)
      ]_vars

\* The chain A -> B -> C, all three hooked and traced by this run: A and B
\* agree, C does not, and C alone is reported.
C24_Witness ==
    /\ analysis.pc = "done"
    /\ analysis.known_names = NodeNames
    /\ Len(analysis.passes) = 5
    /\ analysis.report = <<[kind |-> "DIVERGED", name |-> "C"]>>
    /\ ReadTensor(traces, "inductor", "A").content = OriginalValue.content
    /\ ReadTensor(traces, "inductor", "B").content = OriginalValue.content
    /\ ReadTensor(traces, "float64", "B").content = OriginalValue.content
    /\ ReadTensor(traces, "inductor", "C").content # OriginalValue.content

\* C25: a stored trace that is missing never ends the analysis: the only
\* thing that aborts it is a failed input-consumption assertion, and an
\* analysis that is not aborted goes through to its end.
C25_PartialResults ==
    analysis.pc = "aborted" => analysis.error = "AssertionError"

\* The passes of an analysis that runs to its end, in order
RECURSIVE PassesFrom(_, _)
PassesFrom(o, names) ==
    IF names = <<>> THEN <<>>
    ELSE LET skipped ==
               \/ Head(names) \in {"check_inductor", "check_float64"}
                    /\ o.skip_check_deterministic
               \/ Head(names) = "save_float64"
                    /\ o.skip_saving_float64_intermediates
         IN  (IF skipped THEN <<>> ELSE <<Head(names)>>)
               \o PassesFrom(o, Tail(names))
ExpectedPasses(o) ==
    PassesFrom(o, <<"save_inductor", "check_inductor", "save_float64",
                    "check_float64", "check_divergence">>)
PassNames(a) == [i \in DOMAIN a.passes |-> a.passes[i].pass]
Entries(tr, subdir) == {e \in tr : e.key[1] = subdir}

\* C26: each skip option switches off its own step and no other.  With
\* skip_saving_inductor_intermediates nothing is written under inductor/,
\* with skip_saving_float64_intermediates nothing under float64/, with
\* skip_check_deterministic no determinism pass runs and none is reported;
\* and an analysis that no assertion aborted has run every pass whose own
\* option does not skip it.
C26_IndividuallySkippable ==
    /\ [][/\ analysis.options.skip_saving_inductor_intermediates
               => Entries(traces', "inductor") = Entries(traces, "inductor")
          /\ analysis.options.skip_saving_float64_intermediates
               => Entries(traces', "float64") = Entries(traces, "float64")
          /\ analysis.options.skip_check_deterministic
               => \A i \in DOMAIN NewReport : NewReport[i].kind = "DIVERGED"
         ]_vars
    /\ [](/\ analysis.options.skip_check_deterministic =>
               \A i \in DOMAIN analysis.passes :
                  analysis.passes[i].pass
                     \notin {"check_inductor", "check_float64"}
          /\ (analysis.pc \in {"done", "aborted"}
                /\ analysis.error # "AssertionError")
               => PassNames(analysis) = ExpectedPasses(analysis.options))

\* C27: every pass that runs to its end asserts that the list it was fed is
\* empty.  A list that is not empty ends the analysis there with
\* AssertionError, which is the only way an assertion error arises; the
\* passes that ran are the passes the options ask for, in order; and a
\* failed assertion of a saving pass puts nothing into the report.
C27_InputsConsumed ==
    /\ [](/\ \A i \in DOMAIN analysis.passes :
                ~analysis.passes[i].empty =>
                   /\ i = Len(analysis.passes)
                   /\ analysis.pc = "aborted"
                   /\ analysis.error = "AssertionError"
          /\ analysis.error = "AssertionError" =>
                /\ analysis.passes # <<>>
                /\ ~analysis.passes[Len(analysis.passes)].empty
          /\ \E k \in 0..Len(ExpectedPasses(analysis.options)) :
                PassNames(analysis)
                   = SubSeq(ExpectedPasses(analysis.options), 1, k)
          /\ analysis.pc = "done" =>
                PassNames(analysis) = ExpectedPasses(analysis.options))
    /\ [][(/\ analysis'.error = "AssertionError"
           /\ analysis.pc \in {"save_inductor", "save_float64"})
            => analysis'.report = analysis.report]_vars

\* The last pass, the traversal of the original graph, left its input list
\* non-empty after all four earlier passes had consumed theirs.
C27_Witness ==
    /\ analysis.pc = "aborted"
    /\ analysis.error = "AssertionError"
    /\ Len(analysis.passes) = 5
    /\ analysis.passes[5].pass = "check_divergence"

\* ========================================================================
\* Properties of the sparse generators (specification SparseSpec)
\* ========================================================================
Range(q) == {q[i] : i \in DOMAIN q}

\* The maybe-failing sample k has come out of the sample-input generator,
\* of the error-input generator.
YieldedAsSample(k) ==
    MaybeFailingSampleInputs(sparse_gen.layout)[k] \in Range(sparse_gen.s_yielded)
YieldedAsError(k) ==
    \E e \in Range(sparse_gen.e_yielded) :
       e.sample_input = MaybeFailingSampleInputs(sparse_gen.layout)[k]

\* C36: a sample of the maybe-failing generator that both generators have
\* taken has been yielded by exactly one of them, by the sample-input
\* generator when validation left it a SampleInput and by the error-input
\* generator when validation made it an ErrorInput; neither generator yields
\* it twice, the sample-input generator yields only SampleInputs and the
\* error-input generator only ErrorInputs.
C36_SamplePartition ==
    LET maybe == MaybeFailingSampleInputs(sparse_gen.layout)
        Valid(k) ==
            ValidateSampleInputSparseReduction(sparse_gen.op_name, maybe[k]).kind
               = "SampleInput"
    IN  /\ \A i \in DOMAIN sparse_gen.s_yielded :
              /\ sparse_gen.s_yielded[i].kind = "SampleInput"
              /\ \A j \in DOMAIN sparse_gen.s_yielded :
                    sparse_gen.s_yielded[i] = sparse_gen.s_yielded[j] => i = j
        /\ \A i \in DOMAIN sparse_gen.e_yielded :
              /\ sparse_gen.e_yielded[i].kind = "ErrorInput"
              /\ \A j \in DOMAIN sparse_gen.e_yielded :
                    sparse_gen.e_yielded[i] = sparse_gen.e_yielded[j] => i = j
        /\ \A k \in DOMAIN maybe :
              /\ ~(YieldedAsSample(k) /\ YieldedAsError(k))
              /\ YieldedAsSample(k) <=> (k <= sparse_gen.s_maybe /\ Valid(k))
              /\ YieldedAsError(k) <=> (k <= sparse_gen.e_maybe /\ ~Valid(k))

\* Both generators are exhausted for sum over a compressed layout: the six
\* maybe-failing samples came out as ErrorInputs and a regular sample as a
\* SampleInput.
C36_Witness ==
    LET maybe == MaybeFailingSampleInputs(sparse_gen.layout)
    IN  /\ sparse_gen.op_name = "sum"
        /\ sparse_gen.layout = "sparse_csr"
        /\ sparse_gen.s_maybe = Len(maybe)
        /\ sparse_gen.e_maybe = Len(maybe)
        /\ Len(sparse_gen.e_yielded) = Len(maybe)
        /\ sparse_gen.s_yielded # <<>>
        /\ Len(sparse_gen.s_yielded) < Len(sparse_gen.regular)

\* ========================================================================
\* Specifications
\* ========================================================================
\* Part I: the capture wrapper; no writer session is open.
Init == CaptureInit /\ WriterIdle /\ IsolateIdle /\ PredicateIdle
    /\ AnalyzeIdle /\ SparseIdle
\* Steps of the capture wrapper
Next ==
    \/ \E after \in ReproAfter : SetReproAfter(after)
    \/ DebugWrapperEnter
    \/ \E raises, rewrites \in BOOLEAN : CompilerFn(raises, rewrites)
    \/ \E end \in DumpEnds, copy_ok \in BOOLEAN : DebugWrapperExcept(end, copy_ok)
    \/ DebugWrapperReturn
    \/ DeferredForRealInputs
    \/ CallCompiledDirectly
    \/ \E end \in DumpEnds : InnerDebugFnEnter(end)
    \/ \E fails \in BOOLEAN : BackendAotAccuracyFails(fails)
    \/ \E end1, end2 \in DumpEnds, copy_ok \in BOOLEAN :
          InnerAccuracyFailed(end1, copy_ok, end2)
    \/ \E raises, clears \in BOOLEAN : InnerCompiledFn(raises, clears)
    \/ InnerCompiledFnCrashes
    \/ \E sync_raises \in BOOLEAN : InnerSyncReturn(sync_raises)
    \/ \E end \in DumpEnds, copy_ok \in BOOLEAN : InnerExcept(end, copy_ok)
    \/ PassResult
    \/ Leave
Spec == Init /\ [][Next]_vars

\* Part I with re-entrant calls: one graph and one argument list, every
\* mode and level, and one call made from inside a call to the outside.
ReentrySpecInit ==
    /\ Init
    /\ compiler_name = "inductor"
    /\ gm_graph.nodes = 1
    /\ Len(example_inputs) = 1
ReentrySpecNext ==
    \/ \E after \in ReproAfter : SetReproAfter(after)
    \/ DebugWrapperEnter
    \/ \E raises, rewrites \in BOOLEAN : CompilerFn(raises, rewrites)
    \/ \E end \in DumpEnds, copy_ok \in BOOLEAN : DebugWrapperExcept(end, copy_ok)
    \/ DebugWrapperReturn
    \/ DeferredForRealInputs
    \/ CallCompiledDirectly
    \/ \E end \in DumpEnds : InnerDebugFnEnter(end)
    \/ \E fails \in BOOLEAN : BackendAotAccuracyFails(fails)
    \/ \E end1, end2 \in DumpEnds, copy_ok \in BOOLEAN :
          InnerAccuracyFailed(end1, copy_ok, end2)
    \/ \E raises, clears \in BOOLEAN : InnerCompiledFn(raises, clears)
    \/ InnerCompiledFnCrashes
    \/ \E sync_raises \in BOOLEAN : InnerSyncReturn(sync_raises)
    \/ \E end \in DumpEnds, copy_ok \in BOOLEAN : InnerExcept(end, copy_ok)
    \/ PassResult
    \/ Leave
    \/ \E kind \in {"compile", "invoke"} : ReentrantCall(kind)
    \/ ReentrantLeave
ReentrySpec == ReentrySpecInit /\ [][ReentrySpecNext]_vars

\* Part II: one writer session; the wrapper is not in use.
WriterSpecInit == WriterInit /\ CaptureIdle /\ IsolateIdle /\ PredicateIdle
    /\ AnalyzeIdle /\ SparseIdle
\* Steps of a writer session.  write_ok = FALSE (the content store refuses
\* the write) is only a different step when a write is attempted.
WriterSpecNext ==
    \/ \E s \in StorageIds, dtype_hint \in {"None", "float64"},
          device_hint \in {"None", "cuda"}, write_ok \in BOOLEAN :
          WriterStorage(s, dtype_hint, device_hint, write_ok)
    \/ \E t \in Tensors, write_ok \in BOOLEAN : WriterTensor(t, write_ok)
    \/ \E val \in IntValues : WriterSymint(val)
WriterSpec == WriterSpecInit /\ [][WriterSpecNext]_vars

\* Part III: a writer session as generate_compiler_repro_string runs it
\* (tensor and symint calls only, the content store accepting every write),
\* then the replay of its script.
ReplaySpecInit == ReplayInit /\ CaptureIdle /\ IsolateIdle /\ PredicateIdle
    /\ AnalyzeIdle /\ SparseIdle
ReplaySpecNext ==
    \/ \E t \in {v \in ReplayTensors : IsView(v)} : GenerateTensor(t)
    \/ \E val \in SymIntValues : GenerateSymint(val)
    \/ \E arg \in UnsupportedArgs : GenerateUnsupported(arg)
    \/ GenerateReturn
    \/ \E has_store, intact \in BOOLEAN : LoadArgs(has_store, intact)
ReplaySpec == ReplaySpecInit /\ [][ReplaySpecNext]_vars

\* Part IV: repro_common replays a script it is handed.
ScriptSpecInit == ScriptInit /\ CaptureIdle /\ IsolateIdle /\ PredicateIdle
    /\ AnalyzeIdle /\ SparseIdle
ScriptSpecNext == \E has_store, intact \in BOOLEAN : LoadArgs(has_store, intact)
ScriptSpec == ScriptSpecInit /\ [][ScriptSpecNext]_vars

\* Part V: the minifier's driver asks isolate_fails about one candidate
\* after another.
IsolateSpecInit == IsolateInit /\ CaptureIdle /\ WriterIdle /\ PredicateIdle
    /\ AnalyzeIdle /\ SparseIdle
IsolateSpecNext ==
    \/ \E save_ok \in BOOLEAN : IsolateFailsSpawn(save_ok)
    \/ \E ok \in BOOLEAN : ChildReproCommon(ok)
    \/ \E answer \in {"True", "False", "raises", "crash"} : ChildFailFn(answer)
    \/ IsolateFailsWait
IsolateSpec == IsolateSpecInit /\ [][IsolateSpecNext]_vars

\* Part VI: the minifier calls inductor_fails in its own process.
PredicateSpecInit == PredicateInit /\ CaptureIdle /\ WriterIdle /\ IsolateIdle
    /\ AnalyzeIdle /\ SparseIdle
PredicateSpecNext ==
    \/ InductorFailsScan
    \/ \E result \in ReferenceResults : InductorFailsReference(result)
    \/ \E sync_raises \in BOOLEAN : InductorFailsSync(sync_raises)
    \/ \E raises, in_repr \in BOOLEAN : InductorFailsCompile(raises, in_repr)
PredicateSpec == PredicateSpecInit /\ [][PredicateSpecNext]_vars

\* Part VII: one run of repro_analyze.
AnalyzeSpecInit ==
    AnalyzeInit /\ CaptureIdle /\ WriterIdle /\ IsolateIdle /\ PredicateIdle
    /\ SparseIdle
AnalyzeSpecNext ==
    \/ \E vals \in [analysis.hooked -> InductorValues], cleared \in BOOLEAN :
          SaveInductorIntermediates(vals, cleared)
    \/ \E metas \in [analysis.hooked -> InductorMetas], cleared \in BOOLEAN :
          CheckInductorDeterminism(metas, cleared)
    \/ \E vals \in [analysis.known_names -> Float64Values],
          cleared \in BOOLEAN :
          SaveFloat64Intermediates(vals, cleared)
    \/ \E metas \in [analysis.known_names -> Float64Metas],
          cleared \in BOOLEAN :
          CheckFloat64Determinism(metas, cleared)
    \/ \E cleared \in BOOLEAN : CheckDivergence(cleared)
AnalyzeSpec == AnalyzeSpecInit /\ [][AnalyzeSpecNext]_vars

\* Part VIII: the two generators, each advanced one source sample at a time.
SparseSpecInit ==
    SparseInit /\ CaptureIdle /\ WriterIdle /\ IsolateIdle /\ PredicateIdle
    /\ AnalyzeIdle
SparseSpecNext ==
    \/ SampleInputsSparseRegular
    \/ SampleInputsSparseMaybeFailing
    \/ ErrorInputsSparse
SparseSpec == SparseSpecInit /\ [][SparseSpecNext]_vars

====
